---- MODULE Spec2Model ----
(***************************************************************************)
(* Model of the Infitra backend edge functions.  The payment webhook       *)
(* (functions/stripe_webhook/index.ts) is modelled as a set of concurrent  *)
(* request handlers over the shared tables webhook_event_lock,             *)
(* app_transaction and app_attendance; every await of the handler is one   *)
(* atomic step.  Its pure helpers (isAllowedTransition, parseMeta,         *)
(* computeEconomics) are operators, exercised on their own by PureSpec.    *)
(***************************************************************************)
EXTENDS Integers, Sequences, FiniteSets, TLC

VARIABLES
  webhook_event_lock,   \* set of provider_event_id admitted (provider = "stripe")
  app_transaction,      \* set of transaction rows
  app_attendance,       \* set of attendance rows
  req,                  \* per request: position in the handler and its locals
  pure,                 \* PureSpec only: a pure helper, its input and its result
  app_session,          \* session rows, by id
  app_stream_token,     \* set of stream token rows
  app_email_outbox,     \* set of outbox rows (receipt jobs)
  daily_rooms,          \* number of rooms the live provider has created
  app_feed_event,       \* set of feed event rows
  call                  \* per call of a live-room function: position and locals

\* the state of the edge functions other than the payment webhook
edgeVars ==
  <<app_session, app_stream_token, app_email_outbox, daily_rooms,
    app_feed_event,
    call>>

vars == <<webhook_event_lock, app_transaction, app_attendance, req, pure,
          app_session, app_stream_token, app_email_outbox, daily_rooms,
          app_feed_event, call>>

(***************************************************************************)
(* Bounds                                                                  *)
(***************************************************************************)
\* number of webhook deliveries (request-scoped executions)
MaxReq == 2
\* longest metadata.price_cents string enumerated by PureSpec
MaxLen == 3
\* number of calls of the live-room functions
MaxCalls == 2

\* JS null / undefined
Null == "null"

(***************************************************************************)
(* JS numbers.  A finite number x is held as the integer x * Scale, so     *)
(* that the fractional values Number() can produce from a decimal string   *)
(* of up to MaxLen characters are exact.                                   *)
(***************************************************************************)
RECURSIVE Pow10(_)
Pow10(n) == IF n = 0 THEN 1 ELSE 10 * Pow10(n - 1)

Scale == Pow10(MaxLen)

\* an integer number of cents as a JS number
Cents(n) == n * Scale

DigitChars == <<"0", "1", "2", "3", "4", "5", "6", "7", "8", "9">>

IsDigit(c) == \E i \in 1..Len(DigitChars) : DigitChars[i] = c

DigitVal(c) == (CHOOSE i \in 1..Len(DigitChars) : DigitChars[i] = c) - 1

AllDigits(s) == \A i \in 1..Len(s) : IsDigit(s[i])

RECURSIVE DigitsVal(_)
DigitsVal(s) ==
  IF s = <<>> THEN 0
  ELSE DigitsVal(SubSeq(s, 1, Len(s) - 1)) * 10 + DigitVal(s[Len(s)])

\* Number(str) for a string given as its sequence of characters: the empty
\* string is 0; an optionally signed decimal literal (digits, at most one
\* ".", at least one digit) is its value; anything else is NaN.
StringToNumber(s) ==
  LET signed == s # <<>> /\ s[1] \in {"-", "+"}
      sgn    == IF signed /\ s[1] = "-" THEN -1 ELSE 1
      body   == IF signed THEN Tail(s) ELSE s
      dots   == {i \in 1..Len(body) : body[i] = "."}
      dot    == IF dots = {} THEN Len(body) + 1
                ELSE CHOOSE i \in dots : \A j \in dots : i <= j
      ip     == SubSeq(body, 1, dot - 1)
      fp     == SubSeq(body, dot + 1, Len(body))
      wellFormed == AllDigits(ip) /\ AllDigits(fp) /\ Len(ip) + Len(fp) >= 1
  IN  IF s = <<>> THEN [nan |-> FALSE, v |-> 0]
      ELSE IF ~wellFormed THEN [nan |-> TRUE, v |-> 0]
      ELSE [nan |-> FALSE,
            v |-> sgn * (DigitsVal(ip) * Scale
                         + DigitsVal(fp) * (Scale \div Pow10(Len(fp))))]

\* Math.floor of a JS number
Floor(x) == (x \div Scale) * Scale

Max(a, b) == IF a >= b THEN a ELSE b

(***************************************************************************)
(* Transaction state machine                                               *)
(***************************************************************************)
Statuses == {"pending", "succeeded", "failed", "canceled", "refunded"}

\* mutant: failed and canceled are not treated as terminal
isAllowedTransition_TerminalMut(prev, next) ==
  IF prev = Null \/ prev = "" THEN TRUE
  ELSE IF prev = next THEN TRUE
  ELSE IF prev = "pending"
          /\ next \in {"succeeded", "failed", "canceled", "refunded"} THEN TRUE
  ELSE IF prev = "succeeded" THEN next \in {"refunded"}
  ELSE IF prev \in {"failed", "canceled"} THEN TRUE
  ELSE IF prev = "refunded" THEN FALSE
  ELSE FALSE

\* mutant: a succeeded row accepts the downgrade to failed or canceled
isAllowedTransition_DowngradeMut(prev, next) ==
  IF prev = Null \/ prev = "" THEN TRUE
  ELSE IF prev = next THEN TRUE
  ELSE IF prev \in {"pending", "succeeded"}
          /\ next \in {"succeeded", "failed", "canceled", "refunded"} THEN TRUE
  ELSE IF prev \in {"failed", "canceled"} THEN FALSE
  ELSE IF prev = "refunded" THEN FALSE
  ELSE FALSE

\* mutant: a refunded row is not protected
isAllowedTransition_RefundedMut(prev, next) ==
  IF prev = Null \/ prev = "" THEN TRUE
  ELSE IF prev = next THEN TRUE
  ELSE IF prev = "pending"
          /\ next \in {"succeeded", "failed", "canceled", "refunded"} THEN TRUE
  ELSE IF prev = "succeeded" THEN next \in {"refunded"}
  ELSE IF prev \in {"failed", "canceled"} THEN FALSE
  ELSE IF prev = "refunded" THEN TRUE
  ELSE FALSE

isAllowedTransition(prev, next) ==
  IF prev = Null \/ prev = "" THEN TRUE
  ELSE IF prev = next THEN TRUE
  ELSE IF prev = "pending"
          /\ next \in {"succeeded", "failed", "canceled", "refunded"} THEN TRUE
  ELSE IF prev = "succeeded" THEN next \in {"refunded"}
  ELSE IF prev \in {"failed", "canceled"} THEN FALSE
  ELSE IF prev = "refunded" THEN FALSE
  ELSE FALSE

(***************************************************************************)
(* Checkout metadata.  A metadata bag is a function from the keys that are *)
(* present to their values; price_cents is a sequence of characters, the   *)
(* other values are strings.                                               *)
(***************************************************************************)
Field(m, k) == IF k \in DOMAIN m THEN m[k] ELSE Null

Falsy(x) == x = Null \/ x = ""

\* mutant: buyer_id is not checked
parseMeta_NoBuyerCheckMut(m) ==
  LET kind == Field(m, "kind")
  IN  IF Falsy(kind) \/ (kind # "session" /\ kind # "challenge")
        THEN [ok |-> FALSE, error |-> "metadata.kind missing or invalid"]
      ELSE IF Falsy(Field(m, "target_id"))
        THEN [ok |-> FALSE, error |-> "metadata.target_id missing"]
      ELSE IF Falsy(Field(m, "currency"))
        THEN [ok |-> FALSE, error |-> "metadata.currency missing"]
      ELSE IF "price_cents" \notin DOMAIN m
        THEN [ok |-> FALSE, error |-> "metadata.price_cents missing"]
      ELSE [ok |-> TRUE, md |-> m @@ [buyer_id |-> Null]]

\* parseMeta: the first check that fails throws; otherwise the bag is returned
parseMeta(m) ==
  LET kind == Field(m, "kind")
  IN  IF Falsy(kind) \/ (kind # "session" /\ kind # "challenge")
        THEN [ok |-> FALSE, error |-> "metadata.kind missing or invalid"]
      ELSE IF Falsy(Field(m, "target_id"))
        THEN [ok |-> FALSE, error |-> "metadata.target_id missing"]
      ELSE IF Falsy(Field(m, "buyer_id"))
        THEN [ok |-> FALSE, error |-> "metadata.buyer_id missing"]
      ELSE IF Falsy(Field(m, "currency"))
        THEN [ok |-> FALSE, error |-> "metadata.currency missing"]
      ELSE IF "price_cents" \notin DOMAIN m
        THEN [ok |-> FALSE, error |-> "metadata.price_cents missing"]
      ELSE [ok |-> TRUE, md |-> m]

FixedFeeCents == 30

\* mutant: the percentage fee is not floored at zero
computeEconomics_NoFloorAtZeroMut(md, totalStripeFeeCents) ==
  LET n             == StringToNumber(md.price_cents)
      grossCents    == n.v
      fixedFeeCents == Cents(FixedFeeCents)
      percentFeeCts == Cents(totalStripeFeeCents) - fixedFeeCents
      creatorCut    == Floor((grossCents * 8) \div 10)
      platformCut   == grossCents - creatorCut
      afterStripe   == grossCents - (fixedFeeCents + percentFeeCts)
  IN  IF n.nan \/ grossCents < 0
        THEN [ok |-> FALSE, error |-> "metadata.price_cents invalid"]
      ELSE [ok |-> TRUE,
            grossCents    |-> grossCents,
            fixedFeeCents |-> fixedFeeCents,
            percentFeeCts |-> percentFeeCts,
            creatorCut    |-> creatorCut,
            platformCut   |-> platformCut,
            afterStripe   |-> afterStripe]

\* mutant: the platform cut is rounded on its own instead of being the remainder
computeEconomics_RoundBothMut(md, totalStripeFeeCents) ==
  LET n             == StringToNumber(md.price_cents)
      grossCents    == n.v
      fixedFeeCents == Cents(FixedFeeCents)
      percentFeeCts == Max(Cents(totalStripeFeeCents) - fixedFeeCents, 0)
      creatorCut    == Floor((grossCents * 8) \div 10)
      platformCut   == Floor((grossCents * 2) \div 10)
      afterStripe   == grossCents - (fixedFeeCents + percentFeeCts)
  IN  IF n.nan \/ grossCents < 0
        THEN [ok |-> FALSE, error |-> "metadata.price_cents invalid"]
      ELSE [ok |-> TRUE,
            grossCents    |-> grossCents,
            fixedFeeCents |-> fixedFeeCents,
            percentFeeCts |-> percentFeeCts,
            creatorCut    |-> creatorCut,
            platformCut   |-> platformCut,
            afterStripe   |-> afterStripe]

\* computeEconomics(md, totalStripeFeeCents); totalStripeFeeCents is the
\* provider's integer fee in cents
computeEconomics(md, totalStripeFeeCents) ==
  LET n             == StringToNumber(md.price_cents)
      grossCents    == n.v
      fixedFeeCents == Cents(FixedFeeCents)
      percentFeeCts == Max(Cents(totalStripeFeeCents) - fixedFeeCents, 0)
      creatorCut    == Floor((grossCents * 8) \div 10)
      platformCut   == grossCents - creatorCut
      afterStripe   == grossCents - (fixedFeeCents + percentFeeCts)
  IN  IF n.nan \/ grossCents < 0
        THEN [ok |-> FALSE, error |-> "metadata.price_cents invalid"]
      ELSE [ok |-> TRUE,
            grossCents    |-> grossCents,
            fixedFeeCents |-> fixedFeeCents,
            percentFeeCts |-> percentFeeCts,
            creatorCut    |-> creatorCut,
            platformCut   |-> platformCut,
            afterStripe   |-> afterStripe]

\* mutant: the two cuts are stored in each other's column
BaseRow_SwappedCutsMut(md, piId, math) ==
  [buyer_id     |-> md.buyer_id,
   creator_id   |-> Field(md, "creator_id"),
   session_id   |-> IF md.kind = "session" THEN md.target_id ELSE Null,
   challenge_id |-> IF md.kind = "challenge" THEN md.target_id ELSE Null,
   provider     |-> "stripe",
   provider_payment_id |-> piId,
   type         |-> IF md.kind = "session" THEN "ticket" ELSE "bundle",
   status       |-> "succeeded",
   currency     |-> md.currency,
   amount_gross_cents           |-> math.grossCents,
   processing_fee_fixed_cents   |-> math.fixedFeeCents,
   processing_fee_percent_cents |-> math.percentFeeCts,
   platform_cut_cents           |-> math.creatorCut,
   creator_cut_cents            |-> math.platformCut,
   amount_after_stripe_cents    |-> math.afterStripe]

\* mutant: the target is written to both references
BaseRow_BothTargetsMut(md, piId, math) ==
  [buyer_id     |-> md.buyer_id,
   creator_id   |-> Field(md, "creator_id"),
   session_id   |-> md.target_id,
   challenge_id |-> md.target_id,
   provider     |-> "stripe",
   provider_payment_id |-> piId,
   type         |-> IF md.kind = "session" THEN "ticket" ELSE "bundle",
   status       |-> "succeeded",
   currency     |-> md.currency,
   amount_gross_cents           |-> math.grossCents,
   processing_fee_fixed_cents   |-> math.fixedFeeCents,
   processing_fee_percent_cents |-> math.percentFeeCts,
   platform_cut_cents           |-> math.platformCut,
   creator_cut_cents            |-> math.creatorCut,
   amount_after_stripe_cents    |-> math.afterStripe]

\* the row the handler prepares for the upsert
BaseRow(md, piId, math) ==
  [buyer_id     |-> md.buyer_id,
   creator_id   |-> Field(md, "creator_id"),
   session_id   |-> IF md.kind = "session" THEN md.target_id ELSE Null,
   challenge_id |-> IF md.kind = "challenge" THEN md.target_id ELSE Null,
   provider     |-> "stripe",
   provider_payment_id |-> piId,
   type         |-> IF md.kind = "session" THEN "ticket" ELSE "bundle",
   status       |-> "succeeded",
   currency     |-> md.currency,
   amount_gross_cents           |-> math.grossCents,
   processing_fee_fixed_cents   |-> math.fixedFeeCents,
   processing_fee_percent_cents |-> math.percentFeeCts,
   platform_cut_cents           |-> math.platformCut,
   creator_cut_cents            |-> math.creatorCut,
   amount_after_stripe_cents    |-> math.afterStripe]

(***************************************************************************)
(* Provider events.  An event id names one event: every delivery of the    *)
(* same id carries the same content.  evt_1 and evt_2 are two distinct     *)
(* events announcing the same payment pi_1.                                *)
(***************************************************************************)
SessionMeta ==
  [kind |-> "session", target_id |-> "s1", buyer_id |-> "u1",
   creator_id |-> "c1", currency |-> "CHF",
   price_cents |-> <<"1", "0", "0", "0">>]

ChallengeMeta ==
  [kind |-> "challenge", target_id |-> "ch1", buyer_id |-> "u1",
   creator_id |-> "c1", currency |-> "CHF",
   price_cents |-> <<"2", "5", "0">>]

\* buyer_id is absent
NoBuyerMeta ==
  [kind |-> "session", target_id |-> "s1",
   currency |-> "CHF", price_cents |-> <<"1", "0", "0", "0">>]

CheckoutCompleted == "checkout.session.completed"

Events ==
  { [id |-> "evt_1", type |-> CheckoutCompleted, mode |-> "payment",
     payment_status |-> "paid", metadata |-> SessionMeta,
     payment_intent |-> "pi_1"],
    [id |-> "evt_2", type |-> CheckoutCompleted, mode |-> "payment",
     payment_status |-> "paid", metadata |-> SessionMeta,
     payment_intent |-> "pi_1"],
    [id |-> "evt_3", type |-> CheckoutCompleted, mode |-> "payment",
     payment_status |-> "paid", metadata |-> ChallengeMeta,
     payment_intent |-> "pi_2"],
    [id |-> "evt_4", type |-> "charge.refunded", mode |-> Null,
     payment_status |-> Null, metadata |-> SessionMeta,
     payment_intent |-> "pi_1"],
    [id |-> "evt_5", type |-> CheckoutCompleted, mode |-> "payment",
     payment_status |-> "unpaid", metadata |-> SessionMeta,
     payment_intent |-> "pi_3"],
    [id |-> "evt_6", type |-> CheckoutCompleted, mode |-> "payment",
     payment_status |-> "paid", metadata |-> NoBuyerMeta,
     payment_intent |-> "pi_4"] }

\* the deliveries of BundleSpec: two events of one challenge purchase and a
\* purchase of one of the challenge's sessions by the same buyer
BundleEvents ==
  { [id |-> "evt_3", type |-> CheckoutCompleted, mode |-> "payment",
     payment_status |-> "paid", metadata |-> ChallengeMeta,
     payment_intent |-> "pi_2"],
    [id |-> "evt_7", type |-> CheckoutCompleted, mode |-> "payment",
     payment_status |-> "paid", metadata |-> ChallengeMeta,
     payment_intent |-> "pi_2"],
    [id |-> "evt_1", type |-> CheckoutCompleted, mode |-> "payment",
     payment_status |-> "paid", metadata |-> SessionMeta,
     payment_intent |-> "pi_1"] }

\* the deliveries of UnpaidSpec: a checkout completed without payment, one
\* whose mode is not a one-time payment, and two events of a paid challenge
\* purchase
UnpaidEvents ==
  { [id |-> "evt_5", type |-> CheckoutCompleted, mode |-> "payment",
     payment_status |-> "unpaid", metadata |-> SessionMeta,
     payment_intent |-> "pi_3"],
    [id |-> "evt_8", type |-> CheckoutCompleted, mode |-> "subscription",
     payment_status |-> "paid", metadata |-> SessionMeta,
     payment_intent |-> "pi_5"],
    [id |-> "evt_3", type |-> CheckoutCompleted, mode |-> "payment",
     payment_status |-> "paid", metadata |-> ChallengeMeta,
     payment_intent |-> "pi_2"],
    [id |-> "evt_7", type |-> CheckoutCompleted, mode |-> "payment",
     payment_status |-> "paid", metadata |-> ChallengeMeta,
     payment_intent |-> "pi_2"] }

EventIds == {e.id : e \in Events}

EventOf(eid) ==
  CHOOSE e \in Events \cup BundleEvents \cup UnpaidEvents : e.id = eid

\* values of balance_transaction.fee the provider may report, in cents
Fees == {20, 58}

\* app_challenge_session: the sessions linked to each challenge
app_challenge_session ==
  { [challenge_id |-> "ch1", session_id |-> "s1"],
    [challenge_id |-> "ch1", session_id |-> "s2"] }

(***************************************************************************)
(* Responses: the HTTP status and the keys of the JSON body that matter    *)
(***************************************************************************)
json(flags, status) == [status |-> status, body |-> flags]

NoResp == json({}, 0)

Reqs == 1..MaxReq

IdleReq ==
  [pc |-> "idle", eid |-> Null, fee |-> 0, existing |-> [found |-> FALSE],
   resp |-> NoResp,
   sig |-> Null,           \* history: what the signature check found
   alone |-> FALSE,        \* history: no other request was in flight on arrival
   admitted |-> FALSE,     \* history: this request's ledger insert succeeded
   txWrites |-> 0,         \* history: writes this request made to app_transaction
   entWrites |-> 0,        \* history: writes this request made to app_attendance
   grantError |-> Null]    \* history: the call of grantEntitlements that failed

NoPure == [fn |-> "none"]

(***************************************************************************)
(* The sessions and the calls of the live-room functions                   *)
(* (issue_join_token, create_live_room, precreate_rooms)                   *)
(***************************************************************************)
\* provider(): LIVE_PROVIDER, "daily" unless configured otherwise
provider == "daily"

\* app_session_cohost
app_session_cohost == {[session_id |-> "s1", cohost_id |-> "h1"]}

\* a published session of host c1 that starts in start_time minutes
SessionRow(id, start_time, live_provider, live_room_id) ==
  [id |-> id, host_id |-> "c1", status |-> "published",
   start_time |-> start_time, live_provider |-> live_provider,
   live_room_id |-> live_room_id, started_at |-> Null, ended_at |-> Null]

Calls == 1..MaxCalls

\* SQL NULL in the numeric column attempt_count
NullNum == -1

\* a row of app_email_outbox
OutboxRow(id, enqueued_at, attempt_count) ==
  [id |-> id, kind |-> "receipt", tx_id |-> "tx_" \o ToString(id),
   enqueued_at |-> enqueued_at, attempt_count |-> attempt_count,
   sent_at |-> Null, last_error |-> Null]

\* no row: the value of row and job before the claim
NoRow == OutboxRow(0, 0, 0)

\* a row of app_session or app_challenge as create_checkout_session selects
\* it; creator is host_id of a session and owner_id of a challenge
ProductRow(id, price_cents, currency, status) ==
  [id |-> id, price_cents |-> price_cents, currency |-> currency,
   creator |-> "c1", status |-> status]

\* no product loaded, no metadata built
NoProduct == ProductRow(Null, 0, Null, Null)

NoMeta == [kind |-> Null]

IdleCall ==
  [pc |-> "idle", fn |-> Null, caller |-> Null, session_id |-> Null,
   s |-> SessionRow(Null, 0, Null, Null),   \* the session row as loaded
   roomId |-> Null, token |-> Null,
   todo |-> <<>>, results |-> <<>>,         \* precreate_rooms: its loop
   resp |-> [status |-> 0],
   row |-> NoRow, job |-> NoRow,            \* email_send_receipt: claim, bumped
   sendRes |-> Null,     \* email_send_receipt: "ok", "failed" or "log-only"
   product |-> NoProduct, md |-> NoMeta,    \* create_checkout_session
   limiter |-> Null,     \* history: what the rate-limit check came to
   alone |-> FALSE,      \* history: no other call was in flight on arrival
   wrote |-> {}]         \* history: the tables this call has written

\* s1 has its room, s2 has none yet
EdgeInit ==
  /\ app_session = [id \in {"s1", "s2"} |->
                      IF id = "s1" THEN SessionRow(id, 10, provider, "room_0")
                      ELSE SessionRow(id, 60, Null, Null)]
  /\ app_stream_token = {}
  /\ app_email_outbox = {}
  /\ daily_rooms = 0
  /\ app_feed_event = {}
  /\ call = [c \in Calls |-> IdleCall]

Init ==
  /\ webhook_event_lock = {}
  /\ app_transaction = {}
  /\ app_attendance = {}
  /\ req = [r \in Reqs |-> IdleReq]
  /\ pure = NoPure
  /\ EdgeInit

\* the request returns: its response is set and it takes no further step
Return(r, resp) == [req EXCEPT ![r].pc = "done", ![r].resp = resp]

Md(r) == EventOf(req[r].eid).metadata

PiId(r) == EventOf(req[r].eid).payment_intent

(***************************************************************************)
(* Deno.serve handler, one action per await                                *)
(***************************************************************************)
InFlight(r) == req[r].pc \notin {"idle", "done"}

\* A delivery arrives; the signature header is read and verified (the
\* webhook secret is configured).  Requests are numbered in their order of
\* arrival.
\* mutant: the body is parsed without verifying its signature
ReceiveFrom_NoVerifyMut(r, events) ==
  /\ req[r].pc = "idle"
  /\ \A q \in Reqs : q < r => req[q].pc # "idle"
  /\ \E e \in events, sig \in {"missing", "invalid", "valid"} :
       req' = IF sig = "missing"
                THEN [Return(r, json({"code"}, 400)) EXCEPT ![r].sig = sig]
              ELSE [req EXCEPT ![r].pc = "lock", ![r].eid = e.id, ![r].sig = sig,
                               ![r].alone = \A q \in Reqs : ~InFlight(q)]
  /\ UNCHANGED <<webhook_event_lock, app_transaction, app_attendance, pure, edgeVars>>

\* a delivery of one of events
ReceiveFrom(r, events) ==
  /\ req[r].pc = "idle"
  /\ \A q \in Reqs : q < r => req[q].pc # "idle"
  /\ \E e \in events, sig \in {"missing", "invalid", "valid"} :
       req' = IF sig = "missing"
                THEN [Return(r, json({"code"}, 400)) EXCEPT ![r].sig = sig]
              ELSE IF sig = "invalid"
                THEN [Return(r, json({"code"}, 400)) EXCEPT ![r].sig = sig]
              ELSE [req EXCEPT ![r].pc = "lock", ![r].eid = e.id, ![r].sig = sig,
                               ![r].alone = \A q \in Reqs : ~InFlight(q)]
  /\ UNCHANGED <<webhook_event_lock, app_transaction, app_attendance, pure, edgeVars>>

Receive(r) == ReceiveFrom(r, Events)

\* a delivery of BundleSpec
ReceiveBundle(r) == ReceiveFrom(r, BundleEvents)

\* mutant: an event of another type is acknowledged without the ignored flag
Dispatch_NoIgnoredFlagMut(r) ==
  LET event == EventOf(req[r].eid)
      adm   == [req EXCEPT ![r].admitted = TRUE]
  IN  IF event.type # CheckoutCompleted
        THEN [adm EXCEPT ![r].pc = "done", ![r].resp = json({"ok"}, 200)]
      ELSE IF event.mode # "payment" \/ event.payment_status # "paid"
        THEN [adm EXCEPT ![r].pc = "done", ![r].resp = json({"ok", "ignored"}, 200)]
      ELSE IF ~parseMeta(event.metadata).ok
        THEN [adm EXCEPT ![r].pc = "done", ![r].resp = json({"code"}, 422)]
      ELSE IF Falsy(event.payment_intent)
        THEN [adm EXCEPT ![r].pc = "done", ![r].resp = json({"code"}, 422)]
      ELSE [adm EXCEPT ![r].pc = "fee"]

\* switch (event.type) down to the next await, for an admitted event
\* mutant: a checkout that is not a paid one-time payment is processed
Dispatch_NoPaidCheckMut(r) ==
  LET event == EventOf(req[r].eid)
      adm   == [req EXCEPT ![r].admitted = TRUE]
  IN  IF event.type # CheckoutCompleted
        THEN [adm EXCEPT ![r].pc = "done", ![r].resp = json({"ok", "ignored"}, 200)]
      ELSE IF ~parseMeta(event.metadata).ok
        THEN [adm EXCEPT ![r].pc = "done", ![r].resp = json({"code"}, 422)]
      ELSE IF Falsy(event.payment_intent)
        THEN [adm EXCEPT ![r].pc = "done", ![r].resp = json({"code"}, 422)]
      ELSE [adm EXCEPT ![r].pc = "fee"]

Dispatch(r) ==
  LET event == EventOf(req[r].eid)
      adm   == [req EXCEPT ![r].admitted = TRUE]
  IN  IF event.type # CheckoutCompleted
        THEN [adm EXCEPT ![r].pc = "done", ![r].resp = json({"ok", "ignored"}, 200)]
      ELSE IF event.mode # "payment" \/ event.payment_status # "paid"
        THEN [adm EXCEPT ![r].pc = "done", ![r].resp = json({"ok", "ignored"}, 200)]
      ELSE IF ~parseMeta(event.metadata).ok
        THEN [adm EXCEPT ![r].pc = "done", ![r].resp = json({"code"}, 422)]
      ELSE IF Falsy(event.payment_intent)
        THEN [adm EXCEPT ![r].pc = "done", ![r].resp = json({"code"}, 422)]
      ELSE [adm EXCEPT ![r].pc = "fee"]

\* mutant: the table has no key, every insert succeeds
LockInsert_NoKeyMut(lock, eid) == [error |-> Null, table |-> lock \cup {eid}]

\* the insert into webhook_event_lock, whose primary key is
\* (provider, provider_event_id): error 23505 when the key is present
LockInsert(lock, eid) ==
  IF eid \in lock THEN [error |-> "23505", table |-> lock]
  ELSE [error |-> Null, table |-> lock \cup {eid}]

\* mutant: an insert that fails for another reason does not stop processing
Lock_FailOpenMut(r) ==
  /\ req[r].pc = "lock"
  /\ \/ LET ins == LockInsert(webhook_event_lock, req[r].eid)
        IN  /\ webhook_event_lock' = ins.table
            /\ req' = IF ins.error = "23505"
                        THEN Return(r, json({"ok", "deduped"}, 200))
                      ELSE Dispatch(r)
     \/ /\ req' = Dispatch(r)
        /\ UNCHANGED webhook_event_lock
  /\ UNCHANGED <<app_transaction, app_attendance, pure, edgeVars>>

\* mutant: the metadata is validated before the event is admitted
Lock_ValidateFirstMut(r) ==
  LET event == EventOf(req[r].eid)
      malformed == /\ event.type = CheckoutCompleted
                   /\ event.mode = "payment" /\ event.payment_status = "paid"
                   /\ ~parseMeta(event.metadata).ok
  IN  /\ req[r].pc = "lock"
      /\ \/ /\ malformed
            /\ req' = Return(r, json({"code"}, 422))
            /\ UNCHANGED webhook_event_lock
         \/ /\ ~malformed
            /\ LET ins == LockInsert(webhook_event_lock, req[r].eid)
               IN  /\ webhook_event_lock' = ins.table
                   /\ req' = IF ins.error = "23505"
                               THEN Return(r, json({"ok", "deduped"}, 200))
                             ELSE Dispatch(r)
         \/ /\ req' = Return(r, json({"code"}, 500))
            /\ UNCHANGED webhook_event_lock
      /\ UNCHANGED <<app_transaction, app_attendance, pure, edgeVars>>

\* mutant: the duplicate-key error is not told apart, processing goes on
Lock_IgnoresDuplicateMut(r) ==
  /\ req[r].pc = "lock"
  /\ \/ LET ins == LockInsert(webhook_event_lock, req[r].eid)
        IN  /\ webhook_event_lock' = ins.table
            /\ req' = Dispatch(r)
     \/ /\ req' = Return(r, json({"code"}, 500))
        /\ UNCHANGED webhook_event_lock
  /\ UNCHANGED <<app_transaction, app_attendance, pure, edgeVars>>

\* getOrCreateEventLock and the handler's idempotency block
Lock(r) ==
  /\ req[r].pc = "lock"
  /\ \/ LET ins == LockInsert(webhook_event_lock, req[r].eid)
        IN  /\ webhook_event_lock' = ins.table
            /\ req' = IF ins.error = "23505"
                        THEN Return(r, json({"ok", "deduped"}, 200))
                      ELSE Dispatch(r)
     \/ \* the insert fails for another reason
        /\ req' = Return(r, json({"code"}, 500))
        /\ UNCHANGED webhook_event_lock
  /\ UNCHANGED <<app_transaction, app_attendance, pure, edgeVars>>

\* mutant: a failed fee lookup releases the event's ledger entry
RetrieveFee_ReleasesLockMut(r) ==
  /\ req[r].pc = "fee"
  /\ \/ /\ \E f \in Fees :
             req' = IF computeEconomics(parseMeta(Md(r)).md, f).ok
                      THEN [req EXCEPT ![r].pc = "fetchTx", ![r].fee = f]
                    ELSE Return(r, json({"code"}, 422))
        /\ UNCHANGED webhook_event_lock
     \/ /\ req' = Return(r, json({"code"}, 502))
        /\ webhook_event_lock' = webhook_event_lock \ {req[r].eid}
  /\ UNCHANGED <<app_transaction, app_attendance, pure, edgeVars>>

\* stripe.paymentIntents.retrieve, then computeEconomics
RetrieveFee(r) ==
  /\ req[r].pc = "fee"
  /\ \/ \E f \in Fees :
          req' = IF computeEconomics(parseMeta(Md(r)).md, f).ok
                   THEN [req EXCEPT ![r].pc = "fetchTx", ![r].fee = f]
                 ELSE Return(r, json({"code"}, 422))
     \/ req' = Return(r, json({"code"}, 502))
  /\ UNCHANGED <<webhook_event_lock, app_transaction, app_attendance, pure, edgeVars>>

\* the row of this request's upsert
RowOf(r) ==
  LET md == parseMeta(Md(r)).md
  IN  BaseRow(md, PiId(r), computeEconomics(md, req[r].fee))

\* select id,status by business key, maybeSingle(): the row when exactly one
\* matches, otherwise no data
SelectTx(table, piId) ==
  LET rows == {t \in table : t.provider = "stripe" /\ t.provider_payment_id = piId}
  IN  IF Cardinality(rows) = 1
        THEN LET t == CHOOSE t \in rows : TRUE
             IN  [found |-> TRUE, id |-> t.id, status |-> t.status]
      ELSE [found |-> FALSE]

\* mutant: the insert is skipped when no row exists
FetchTx_SkipInsertMut(r) ==
  /\ req[r].pc = "fetchTx"
  /\ \/ LET existing == SelectTx(app_transaction, PiId(r))
        IN  req' = IF ~existing.found
                     THEN [req EXCEPT ![r].pc = "grant", ![r].existing = existing]
                   ELSE IF ~isAllowedTransition(existing.status, "succeeded")
                     THEN [Return(r, json({"ok", "ignored"}, 200))
                             EXCEPT ![r].existing = existing]
                   ELSE [req EXCEPT ![r].pc = "updateTx", ![r].existing = existing]
     \/ req' = Return(r, json({"code"}, 500))
  /\ UNCHANGED <<webhook_event_lock, app_transaction, app_attendance, pure, edgeVars>>

\* mutant: a disallowed transition is answered 409
FetchTx_ConflictMut(r) ==
  /\ req[r].pc = "fetchTx"
  /\ \/ LET existing == SelectTx(app_transaction, PiId(r))
        IN  req' = IF ~existing.found
                     THEN [req EXCEPT ![r].pc = "insertTx", ![r].existing = existing]
                   ELSE IF ~isAllowedTransition(existing.status, "succeeded")
                     THEN [Return(r, json({"code"}, 409))
                             EXCEPT ![r].existing = existing]
                   ELSE [req EXCEPT ![r].pc = "updateTx", ![r].existing = existing]
     \/ req' = Return(r, json({"code"}, 500))
  /\ UNCHANGED <<webhook_event_lock, app_transaction, app_attendance, pure, edgeVars>>

\* fetchExistingTx and the transition guard
FetchTx(r) ==
  /\ req[r].pc = "fetchTx"
  /\ \/ LET existing == SelectTx(app_transaction, PiId(r))
        IN  req' = IF ~existing.found
                     THEN [req EXCEPT ![r].pc = "insertTx", ![r].existing = existing]
                   ELSE IF ~isAllowedTransition(existing.status, "succeeded")
                     THEN [Return(r, json({"ok", "ignored"}, 200))
                             EXCEPT ![r].existing = existing]
                   ELSE [req EXCEPT ![r].pc = "updateTx", ![r].existing = existing]
     \/ req' = Return(r, json({"code"}, 500))
  /\ UNCHANGED <<webhook_event_lock, app_transaction, app_attendance, pure, edgeVars>>

\* row identifiers are assigned by the store; rows are never deleted
NewTxId(table) == Cardinality(table) + 1

\* mutant: the store has no uniqueness constraint on the business key
TxInsert_NoConstraintMut(table, row) ==
  [error |-> Null, table |-> table \cup {[id |-> NewTxId(table)] @@ row}]

\* the store's insert into app_transaction under the uniqueness constraint
\* on the business key (provider, provider_payment_id)
TxInsert(table, row) ==
  IF \E t \in table : t.provider = row.provider
                      /\ t.provider_payment_id = row.provider_payment_id
    THEN [error |-> "23505", table |-> table]
  ELSE [error |-> Null,
        table |-> table \cup {[id |-> NewTxId(table)] @@ row}]

\* insertTx: a uniqueness violation is swallowed
InsertTx(r) ==
  /\ req[r].pc = "insertTx"
  /\ \/ LET ins == TxInsert(app_transaction, RowOf(r))
        IN  /\ app_transaction' = ins.table
            /\ req' = [req EXCEPT ![r].pc = "grant",
                         ![r].txWrites = @ + (IF ins.error = Null THEN 1 ELSE 0)]
     \/ /\ req' = Return(r, json({"code"}, 500))
        /\ UNCHANGED app_transaction
  /\ UNCHANGED <<webhook_event_lock, app_attendance, pure, edgeVars>>

\* update(row).eq("id", id): every column of row is written
TxUpdate(table, id, row) ==
  {IF t.id = id THEN [id |-> id] @@ row ELSE t : t \in table}

\* mutant: the update is a delete followed by an insert that may fail
UpdateTx_DeleteThenInsertMut(r) ==
  /\ req[r].pc = "updateTx"
  /\ \/ /\ app_transaction' = TxUpdate(app_transaction, req[r].existing.id, RowOf(r))
        /\ req' = [req EXCEPT ![r].pc = "grant", ![r].txWrites = @ + 1]
     \/ /\ req' = [Return(r, json({"code"}, 500)) EXCEPT ![r].txWrites = @ + 1]
        /\ app_transaction' = {t \in app_transaction : t.id # req[r].existing.id}
  /\ UNCHANGED <<webhook_event_lock, app_attendance, pure, edgeVars>>

\* updateTx(existing.id, baseRow)
UpdateTx(r) ==
  /\ req[r].pc = "updateTx"
  /\ \/ /\ app_transaction' = TxUpdate(app_transaction, req[r].existing.id, RowOf(r))
        /\ req' = [req EXCEPT ![r].pc = "grant", ![r].txWrites = @ + 1]
     \/ /\ req' = Return(r, json({"code"}, 500))
        /\ UNCHANGED app_transaction
  /\ UNCHANGED <<webhook_event_lock, app_attendance, pure, edgeVars>>

\* upsert(rows, onConflict: "session_id,user_id"): a conflicting row is
\* replaced by the given one
AttendanceUpsert(table, rows) ==
  {a \in table : ~\E n \in rows : n.session_id = a.session_id
                                   /\ n.user_id = a.user_id} \cup rows

\* mutant: only one of the challenge's sessions is granted
GrantRows_FirstOnlyMut(md) ==
  IF md.kind = "session"
    THEN {[session_id |-> md.target_id, user_id |-> md.buyer_id, joined_at |-> Null]}
  ELSE LET links == {l \in app_challenge_session : l.challenge_id = md.target_id}
       IN  IF links = {} THEN {}
           ELSE {[session_id |-> (CHOOSE l \in links : TRUE).session_id,
                  user_id |-> md.buyer_id, joined_at |-> Null]}

\* the attendance rows grantEntitlements upserts for md
GrantRows(md) ==
  IF md.kind = "session"
    THEN {[session_id |-> md.target_id, user_id |-> md.buyer_id, joined_at |-> Null]}
  ELSE {[session_id |-> l.session_id, user_id |-> md.buyer_id, joined_at |-> Null] :
          l \in {l \in app_challenge_session : l.challenge_id = md.target_id}}

Processed == json({"ok", "processed"}, 200)

\* the upsert's result is not inspected: when it fails nothing is written
\* and the handler goes on
UpsertAndReturn(r) ==
  \/ /\ app_attendance' = AttendanceUpsert(app_attendance, GrantRows(parseMeta(Md(r)).md))
     /\ req' = [Return(r, Processed) EXCEPT ![r].entWrites = @ + 1]
  \/ /\ req' = [Return(r, Processed) EXCEPT ![r].grantError = "upsert"]
     /\ UNCHANGED app_attendance

\* grantEntitlements, first await: the upsert for a session purchase, the
\* select of the linked sessions for a challenge purchase
Grant(r) ==
  /\ req[r].pc = "grant"
  /\ IF parseMeta(Md(r)).md.kind = "session"
       THEN UpsertAndReturn(r)
     ELSE \/ /\ req' = IF GrantRows(parseMeta(Md(r)).md) # {}
                         THEN [req EXCEPT ![r].pc = "grantUpsert"]
                       ELSE Return(r, Processed)
             /\ UNCHANGED app_attendance
          \/ \* the select fails: grantEntitlements throws
             /\ req' = [Return(r, json({"ok", "warning"}, 200))
                         EXCEPT ![r].grantError = "select"]
             /\ UNCHANGED app_attendance
  /\ UNCHANGED <<webhook_event_lock, app_transaction, pure, edgeVars>>

\* grantEntitlements, second await of a challenge purchase
GrantUpsert(r) ==
  /\ req[r].pc = "grantUpsert"
  /\ UpsertAndReturn(r)
  /\ UNCHANGED <<webhook_event_lock, app_transaction, pure, edgeVars>>

\* Another writer of app_transaction (refund, failure or cancellation
\* processing) moves a live row to a terminal status.
TerminalStatuses == {"refunded", "failed", "canceled"}

ExternalStatusWrite ==
  /\ \E t \in app_transaction, s \in TerminalStatuses :
       /\ t.status \notin TerminalStatuses
       /\ app_transaction' = (app_transaction \ {t}) \cup {[t EXCEPT !.status = s]}
  /\ UNCHANGED <<webhook_event_lock, app_attendance, req, pure, edgeVars>>

Next ==
  \/ \E r \in Reqs : Receive(r)
  \/ \E r \in Reqs : Lock(r)
  \/ \E r \in Reqs : RetrieveFee(r)
  \/ \E r \in Reqs : FetchTx(r)
  \/ \E r \in Reqs : InsertTx(r)
  \/ \E r \in Reqs : UpdateTx(r)
  \/ \E r \in Reqs : Grant(r)
  \/ \E r \in Reqs : GrantUpsert(r)
  \/ ExternalStatusWrite

Spec == Init /\ [][Next]_vars

\* the deliveries on their own: no other writer of app_transaction
DeliveryNext ==
  \/ \E r \in Reqs : Receive(r)
  \/ \E r \in Reqs : Lock(r)
  \/ \E r \in Reqs : RetrieveFee(r)
  \/ \E r \in Reqs : FetchTx(r)
  \/ \E r \in Reqs : InsertTx(r)
  \/ \E r \in Reqs : UpdateTx(r)
  \/ \E r \in Reqs : Grant(r)
  \/ \E r \in Reqs : GrantUpsert(r)

DeliverySpec == Init /\ [][DeliveryNext]_vars

\* the deliveries of a bundle purchase on their own
BundleNext ==
  \/ \E r \in Reqs : ReceiveBundle(r)
  \/ \E r \in Reqs : Lock(r)
  \/ \E r \in Reqs : RetrieveFee(r)
  \/ \E r \in Reqs : FetchTx(r)
  \/ \E r \in Reqs : InsertTx(r)
  \/ \E r \in Reqs : UpdateTx(r)
  \/ \E r \in Reqs : Grant(r)
  \/ \E r \in Reqs : GrantUpsert(r)

BundleSpec == Init /\ [][BundleNext]_vars

ReceiveUnpaid(r) == ReceiveFrom(r, UnpaidEvents)

\* deliveries of UnpaidEvents, without writers outside the handler
UnpaidNext ==
  \/ \E r \in Reqs : ReceiveUnpaid(r)
  \/ \E r \in Reqs : Lock(r)
  \/ \E r \in Reqs : RetrieveFee(r)
  \/ \E r \in Reqs : FetchTx(r)
  \/ \E r \in Reqs : InsertTx(r)
  \/ \E r \in Reqs : UpdateTx(r)
  \/ \E r \in Reqs : Grant(r)
  \/ \E r \in Reqs : GrantUpsert(r)

UnpaidSpec == Init /\ [][UnpaidNext]_vars

(***************************************************************************)
(* issue_join_token (functions/issue_join_token/index.ts), one action per  *)
(* await.  Calls are numbered in their order of arrival.                   *)
(***************************************************************************)
CallInFlight(c) == call[c].pc \notin {"idle", "done"}

\* the call returns
Respond(c, resp) == [call EXCEPT ![c].pc = "done", ![c].resp = resp]

\* new Date().toISOString() as read by call c: calls read distinct instants
Now(c) == ToString(c)

\* who may call, Null for a request without a valid JWT: the buyer u1, the
\* host c1, the cohost h1 and a stranger x1
Callers == {"u1", "c1", "h1", "x1", Null}

\* the session_id of the body: s9 has no row, Null is a body without it
SessionIds == {"s1", "s2", "s9", Null}

\* getUser, req.json, the select of the session, the room check and the
\* host check, for a caller and a session_id drawn from the given sets
JoinLoadFrom(c, callers, sessions) ==
  /\ call[c].pc = "idle"
  /\ \A d \in Calls : d < c => call[d].pc # "idle"
  /\ \E caller \in callers, session_id \in sessions, selected \in BOOLEAN :
       LET arrived == [call EXCEPT ![c].fn = "issue_join_token",
                                   ![c].caller = caller,
                                   ![c].session_id = session_id,
                                   ![c].alone = \A d \in Calls : ~CallInFlight(d)]
       IN  call' =
             IF caller = Null
               THEN [arrived EXCEPT ![c].pc = "done", ![c].resp = [status |-> 401]]
             ELSE IF Falsy(session_id)
               THEN [arrived EXCEPT ![c].pc = "done", ![c].resp = [status |-> 400]]
             ELSE IF ~selected \/ session_id \notin DOMAIN app_session
               THEN [arrived EXCEPT ![c].pc = "done", ![c].resp = [status |-> 404]]
             ELSE LET s == app_session[session_id]
                  IN  IF s.live_provider # provider \/ Falsy(s.live_room_id)
                        THEN [arrived EXCEPT ![c].pc = "done", ![c].s = s,
                                             ![c].resp = [status |-> 400]]
                      ELSE IF s.host_id = caller
                        THEN [arrived EXCEPT ![c].pc = "issueToken", ![c].s = s]
                      ELSE [arrived EXCEPT ![c].pc = "cohost", ![c].s = s]
  /\ UNCHANGED <<webhook_event_lock, app_transaction, app_attendance, req, pure,
                 app_session, app_stream_token, app_email_outbox, daily_rooms,
                 app_feed_event>>

JoinLoad(c) == JoinLoadFrom(c, Callers, SessionIds)

\* the select on app_session_cohost; a failed select leaves data null
JoinCohost(c) ==
  /\ call[c].pc = "cohost"
  /\ \/ call' = IF \E ch \in app_session_cohost :
                     /\ ch.session_id = call[c].session_id
                     /\ ch.cohost_id = call[c].caller
                  THEN [call EXCEPT ![c].pc = "issueToken"]
                ELSE [call EXCEPT ![c].pc = "attendance"]
     \/ call' = [call EXCEPT ![c].pc = "attendance"]
  /\ UNCHANGED <<webhook_event_lock, app_transaction, app_attendance, req, pure,
                 app_session, app_stream_token, app_email_outbox, daily_rooms,
                 app_feed_event>>

\* mutant: the attendance select is not restricted to the caller
JoinAttendance_AnyUserMut(c) ==
  /\ call[c].pc = "attendance"
  /\ \/ call' = IF \E a \in app_attendance : a.session_id = call[c].session_id
                  THEN [call EXCEPT ![c].pc = "issueToken"]
                ELSE Respond(c, [status |-> 403])
     \/ call' = Respond(c, [status |-> 403])
  /\ UNCHANGED <<webhook_event_lock, app_transaction, app_attendance, req, pure,
                 app_session, app_stream_token, app_email_outbox, daily_rooms,
                 app_feed_event>>

\* the select on app_attendance, then 403 for a caller who is not entitled
JoinAttendance(c) ==
  /\ call[c].pc = "attendance"
  /\ \/ call' = IF \E a \in app_attendance :
                     /\ a.session_id = call[c].session_id
                     /\ a.user_id = call[c].caller
                  THEN [call EXCEPT ![c].pc = "issueToken"]
                ELSE Respond(c, [status |-> 403])
     \/ call' = Respond(c, [status |-> 403])
  /\ UNCHANGED <<webhook_event_lock, app_transaction, app_attendance, req, pure,
                 app_session, app_stream_token, app_email_outbox, daily_rooms,
                 app_feed_event>>

\* issueToken(s.live_room_id, userName): a token, or it throws (500)
JoinIssueToken(c) ==
  /\ call[c].pc = "issueToken"
  /\ \/ call' = [call EXCEPT ![c].pc = "markStarted", ![c].token = "tok_" \o ToString(c)]
     \/ call' = Respond(c, [status |-> 500])
  /\ UNCHANGED <<webhook_event_lock, app_transaction, app_attendance, req, pure,
                 app_session, app_stream_token, app_email_outbox, daily_rooms,
                 app_feed_event>>

\* update started_at where it is null; the result is not inspected
JoinMarkStarted(c) ==
  /\ call[c].pc = "markStarted"
  /\ LET sid == call[c].session_id
     IN  \/ /\ app_session[sid].started_at = Null
            /\ app_session' = [app_session EXCEPT ![sid].started_at = Now(c)]
            /\ call' = [call EXCEPT ![c].pc = "upsertAttendance",
                                    ![c].wrote = @ \cup {"app_session"}]
         \/ /\ call' = [call EXCEPT ![c].pc = "upsertAttendance"]
            /\ UNCHANGED app_session
  /\ UNCHANGED <<webhook_event_lock, app_transaction, app_attendance, req, pure,
                 app_stream_token, app_email_outbox, daily_rooms,
                 app_feed_event>>

\* upsert of the caller's attendance with joined_at; the result is not
\* inspected
JoinUpsertAttendance(c) ==
  /\ call[c].pc = "upsertAttendance"
  /\ \/ /\ app_attendance' =
             AttendanceUpsert(app_attendance,
                              {[session_id |-> call[c].session_id,
                                user_id |-> call[c].caller,
                                joined_at |-> Now(c)]})
        /\ call' = [call EXCEPT ![c].pc = "saveToken",
                                ![c].wrote = @ \cup {"app_attendance"}]
     \/ /\ call' = [call EXCEPT ![c].pc = "saveToken"]
        /\ UNCHANGED app_attendance
  /\ UNCHANGED <<webhook_event_lock, app_transaction, req, pure,
                 app_session, app_stream_token, app_email_outbox, daily_rooms,
                 app_feed_event>>

\* upsert of the stream token on (session_id, user_id); 500 when it fails
JoinSaveToken(c) ==
  /\ call[c].pc = "saveToken"
  /\ \/ /\ app_stream_token' =
             {t \in app_stream_token :
                ~(t.session_id = call[c].session_id /\ t.user_id = call[c].caller)}
             \cup {[session_id |-> call[c].session_id, user_id |-> call[c].caller,
                    token |-> call[c].token]}
        /\ call' = [Respond(c, [status |-> 200, token |-> call[c].token])
                      EXCEPT ![c].wrote = @ \cup {"app_stream_token"}]
     \/ /\ call' = Respond(c, [status |-> 500])
        /\ UNCHANGED app_stream_token
  /\ UNCHANGED <<webhook_event_lock, app_transaction, app_attendance, req, pure,
                 app_session, app_email_outbox, daily_rooms, app_feed_event>>

JoinNext ==
  \/ \E c \in Calls : JoinLoad(c)
  \/ \E c \in Calls : JoinCohost(c)
  \/ \E c \in Calls : JoinAttendance(c)
  \/ \E c \in Calls : JoinIssueToken(c)
  \/ \E c \in Calls : JoinMarkStarted(c)
  \/ \E c \in Calls : JoinUpsertAttendance(c)
  \/ \E c \in Calls : JoinSaveToken(c)

\* the buyer u1 holds the attendance row of a purchase of s1
JoinInit ==
  /\ webhook_event_lock = {}
  /\ app_transaction = {}
  /\ app_attendance = GrantRows(SessionMeta)
  /\ req = [r \in Reqs |-> IdleReq]
  /\ pure = NoPure
  /\ EdgeInit

JoinSpec == JoinInit /\ [][JoinNext]_vars

\* the buyer of BundleEvents asks to join the session s1
JoinBuyer(c) == JoinLoadFrom(c, {"u1"}, {"s1"})

\* the deliveries of BundleSpec together with the buyer's joins
AccessNext ==
  \/ BundleNext
  \/ \E c \in Calls : JoinBuyer(c)
  \/ \E c \in Calls : JoinCohost(c)
  \/ \E c \in Calls : JoinAttendance(c)
  \/ \E c \in Calls : JoinIssueToken(c)
  \/ \E c \in Calls : JoinMarkStarted(c)
  \/ \E c \in Calls : JoinUpsertAttendance(c)
  \/ \E c \in Calls : JoinSaveToken(c)

AccessSpec == Init /\ [][AccessNext]_vars

(***************************************************************************)
(* issue_join_token with the rate limiter (edge_rate_limit_use)            *)
(***************************************************************************)
\* the callers and session ids of the rate-limited requests: the buyer,
\* the host, a stranger or no user; a session with a room, or none
LimitedCallers == {"u1", "c1", "x1", Null}

LimitedSessionIds == {"s1", Null}

\* getUser and the body: 401 without a user, 400 without session_id
LimitedJoinArrive(c) ==
  /\ call[c].pc = "idle"
  /\ \A d \in Calls : d < c => call[d].pc # "idle"
  /\ \E caller \in LimitedCallers, session_id \in LimitedSessionIds :
       LET arrived == [call EXCEPT ![c].fn = "issue_join_token",
                                   ![c].caller = caller,
                                   ![c].session_id = session_id,
                                   ![c].alone = \A d \in Calls : ~CallInFlight(d)]
       IN  call' =
             IF caller = Null
               THEN [arrived EXCEPT ![c].pc = "done", ![c].resp = [status |-> 401]]
             ELSE IF Falsy(session_id)
               THEN [arrived EXCEPT ![c].pc = "done", ![c].resp = [status |-> 400]]
             ELSE [arrived EXCEPT ![c].pc = "rateLimit"]
  /\ UNCHANGED <<webhook_event_lock, app_transaction, app_attendance, req, pure,
                 app_session, app_stream_token, app_email_outbox, daily_rooms,
                 app_feed_event>>

\* the texts of a response of the rate-limit call that is not ok
LimiterTexts == {"rate_limited_user", "rate_limited_ip", "permission denied"}

\* txt.includes("rate_limited")
IncludesRateLimited(txt) == txt \in {"rate_limited_user", "rate_limited_ip"}

\* mutant: a limiter that cannot be reached lets the request through
LimitedJoinRateLimit_FailOpenMut(c) ==
  /\ call[c].pc = "rateLimit"
  /\ \/ call' = [call EXCEPT ![c].pc = "load", ![c].limiter = "ok"]
     \/ \E txt \in LimiterTexts :
          call' = IF IncludesRateLimited(txt)
                    THEN [Respond(c, [status |-> 429]) EXCEPT ![c].limiter = "exceeded"]
                  ELSE [Respond(c, [status |-> 500]) EXCEPT ![c].limiter = "failed"]
     \/ call' = [call EXCEPT ![c].pc = "load", ![c].limiter = "unreachable"]
  /\ UNCHANGED <<webhook_event_lock, app_transaction, app_attendance, req, pure,
                 app_session, app_stream_token, app_email_outbox, daily_rooms,
                 app_feed_event>>

\* the POST to rpc/edge_rate_limit_use: ok, not ok with a text, or a throw
LimitedJoinRateLimit(c) ==
  /\ call[c].pc = "rateLimit"
  /\ \/ call' = [call EXCEPT ![c].pc = "load", ![c].limiter = "ok"]
     \/ \E txt \in LimiterTexts :
          call' = IF IncludesRateLimited(txt)
                    THEN [Respond(c, [status |-> 429]) EXCEPT ![c].limiter = "exceeded"]
                  ELSE [Respond(c, [status |-> 500]) EXCEPT ![c].limiter = "failed"]
     \/ call' = [Respond(c, [status |-> 503]) EXCEPT ![c].limiter = "unreachable"]
  /\ UNCHANGED <<webhook_event_lock, app_transaction, app_attendance, req, pure,
                 app_session, app_stream_token, app_email_outbox, daily_rooms,
                 app_feed_event>>

\* the select of the session, the room check and the host check
LimitedJoinLoad(c) ==
  /\ call[c].pc = "load"
  /\ \E selected \in BOOLEAN :
       LET session_id == call[c].session_id
       IN  call' =
             IF ~selected \/ session_id \notin DOMAIN app_session
               THEN Respond(c, [status |-> 404])
             ELSE LET s == app_session[session_id]
                  IN  IF s.live_provider # provider \/ Falsy(s.live_room_id)
                        THEN [Respond(c, [status |-> 400]) EXCEPT ![c].s = s]
                      ELSE IF s.host_id = call[c].caller
                        THEN [call EXCEPT ![c].pc = "issueToken", ![c].s = s]
                      ELSE [call EXCEPT ![c].pc = "cohost", ![c].s = s]
  /\ UNCHANGED <<webhook_event_lock, app_transaction, app_attendance, req, pure,
                 app_session, app_stream_token, app_email_outbox, daily_rooms,
                 app_feed_event>>

LimitedJoinNext ==
  \/ \E c \in Calls : LimitedJoinArrive(c)
  \/ \E c \in Calls : LimitedJoinRateLimit(c)
  \/ \E c \in Calls : LimitedJoinLoad(c)
  \/ \E c \in Calls : JoinCohost(c)
  \/ \E c \in Calls : JoinAttendance(c)
  \/ \E c \in Calls : JoinIssueToken(c)
  \/ \E c \in Calls : JoinMarkStarted(c)
  \/ \E c \in Calls : JoinUpsertAttendance(c)
  \/ \E c \in Calls : JoinSaveToken(c)

LimitedJoinSpec == JoinInit /\ [][LimitedJoinNext]_vars

(***************************************************************************)
(* live_provider createRoom, create_live_room and precreate_rooms          *)
(***************************************************************************)
\* createRoom(title) when n rooms exist: the object it returns
createRoom(n) == [provider |-> "daily", roomId |-> "room_" \o ToString(n + 1)]

\* mutant: an existing room is not reused
CreateLoad_NoReuseMut(c) ==
  /\ call[c].pc = "idle"
  /\ \A d \in Calls : d < c => call[d].pc # "idle"
  /\ \E caller \in Callers, session_id \in SessionIds, selected \in BOOLEAN :
       LET arrived == [call EXCEPT ![c].fn = "create_live_room",
                                   ![c].caller = caller,
                                   ![c].session_id = session_id,
                                   ![c].alone = \A d \in Calls : ~CallInFlight(d)]
       IN  call' =
             IF caller = Null
               THEN [arrived EXCEPT ![c].pc = "done", ![c].resp = [status |-> 401]]
             ELSE IF Falsy(session_id)
               THEN [arrived EXCEPT ![c].pc = "done", ![c].resp = [status |-> 400]]
             ELSE IF ~selected \/ session_id \notin DOMAIN app_session
               THEN [arrived EXCEPT ![c].pc = "done", ![c].resp = [status |-> 404]]
             ELSE LET s == app_session[session_id]
                  IN  IF s.host_id # caller
                        THEN [arrived EXCEPT ![c].pc = "done", ![c].s = s,
                                             ![c].resp = [status |-> 403]]
                      ELSE [arrived EXCEPT ![c].pc = "createRoom", ![c].s = s]
  /\ UNCHANGED <<webhook_event_lock, app_transaction, app_attendance, req, pure,
                 app_session, app_stream_token, app_email_outbox, daily_rooms,
                 app_feed_event>>

\* create_live_room: getUser, req.json, the select of the session, the host
\* check and the reuse of an existing room
CreateLoad(c) ==
  /\ call[c].pc = "idle"
  /\ \A d \in Calls : d < c => call[d].pc # "idle"
  /\ \E caller \in Callers, session_id \in SessionIds, selected \in BOOLEAN :
       LET arrived == [call EXCEPT ![c].fn = "create_live_room",
                                   ![c].caller = caller,
                                   ![c].session_id = session_id,
                                   ![c].alone = \A d \in Calls : ~CallInFlight(d)]
       IN  call' =
             IF caller = Null
               THEN [arrived EXCEPT ![c].pc = "done", ![c].resp = [status |-> 401]]
             ELSE IF Falsy(session_id)
               THEN [arrived EXCEPT ![c].pc = "done", ![c].resp = [status |-> 400]]
             ELSE IF ~selected \/ session_id \notin DOMAIN app_session
               THEN [arrived EXCEPT ![c].pc = "done", ![c].resp = [status |-> 404]]
             ELSE LET s == app_session[session_id]
                  IN  IF s.host_id # caller
                        THEN [arrived EXCEPT ![c].pc = "done", ![c].s = s,
                                             ![c].resp = [status |-> 403]]
                      ELSE IF ~Falsy(s.live_room_id) /\ s.live_provider = provider
                        THEN [arrived EXCEPT
                                ![c].pc = "done", ![c].s = s,
                                ![c].resp = [status |-> 200,
                                             live_provider |-> s.live_provider,
                                             live_room_id |-> s.live_room_id,
                                             reused |-> TRUE]]
                      ELSE [arrived EXCEPT ![c].pc = "createRoom", ![c].s = s]
  /\ UNCHANGED <<webhook_event_lock, app_transaction, app_attendance, req, pure,
                 app_session, app_stream_token, app_email_outbox, daily_rooms,
                 app_feed_event>>

\* create_live_room: createRoom(title); 500 when it throws
CreateRoom(c) ==
  /\ call[c].pc = "createRoom"
  /\ \/ /\ call' = [call EXCEPT ![c].pc = "persist",
                                ![c].roomId = createRoom(daily_rooms).roomId]
        /\ daily_rooms' = daily_rooms + 1
     \/ /\ call' = Respond(c, [status |-> 500])
        /\ UNCHANGED daily_rooms
  /\ UNCHANGED <<webhook_event_lock, app_transaction, app_attendance, req, pure,
                 app_session, app_stream_token, app_email_outbox,
                 app_feed_event>>

\* create_live_room: update of the session by id; 500 when it fails
CreatePersist(c) ==
  /\ call[c].pc = "persist"
  /\ LET sid == call[c].session_id
     IN  \/ /\ app_session' = [app_session EXCEPT
                                 ![sid].live_provider = provider,
                                 ![sid].live_room_id = call[c].roomId]
            /\ call' = [Respond(c, [status |-> 200, live_provider |-> provider,
                                    live_room_id |-> call[c].roomId,
                                    reused |-> FALSE])
                          EXCEPT ![c].wrote = @ \cup {"app_session"}]
         \/ /\ call' = Respond(c, [status |-> 500])
            /\ UNCHANGED app_session
  /\ UNCHANGED <<webhook_event_lock, app_transaction, app_attendance, req, pure,
                 app_stream_token, app_email_outbox, daily_rooms,
                 app_feed_event>>

\* the x-cron-secret header of a precreate_rooms request
CronHeaders == {"cron-secret", "wrong", Null}

CRON_SECRET == "cron-secret"

\* minutes ahead of now that precreate_rooms looks
PrecreateWindow == 15

\* the sessions precreate_rooms selects: published, without a room, starting
\* within the window (every session row here has a start_time, so the
\* filter start_time is not null passes for all)
DueSessions ==
  {id \in DOMAIN app_session :
     /\ app_session[id].status = "published"
     /\ app_session[id].live_room_id = Null
     /\ app_session[id].start_time >= 0
     /\ app_session[id].start_time <= PrecreateWindow}

\* the sequences that list every element of the set once
Orderings(S) ==
  {q \in [1..Cardinality(S) -> S] : \A i, j \in 1..Cardinality(S) : q[i] = q[j] => i = j}

\* precreate_rooms: the shared-secret check and the select
PrecreateSelect(c) ==
  /\ call[c].pc = "idle"
  /\ \A d \in Calls : d < c => call[d].pc # "idle"
  /\ \E hdr \in CronHeaders, selected \in BOOLEAN, todo \in Orderings(DueSessions) :
       LET arrived == [call EXCEPT ![c].fn = "precreate_rooms",
                                   ![c].alone = \A d \in Calls : ~CallInFlight(d)]
       IN  call' =
             IF Falsy(hdr) \/ hdr # CRON_SECRET
               THEN [arrived EXCEPT ![c].pc = "done", ![c].resp = [status |-> 403]]
             ELSE IF ~selected
               THEN [arrived EXCEPT ![c].pc = "done", ![c].resp = [status |-> 500]]
             ELSE IF todo = <<>>
               THEN [arrived EXCEPT ![c].pc = "done",
                                    ![c].resp = [status |-> 200, results |-> <<>>]]
             ELSE [arrived EXCEPT ![c].pc = "preCreateRoom", ![c].todo = todo]
  /\ UNCHANGED <<webhook_event_lock, app_transaction, app_attendance, req, pure,
                 app_session, app_stream_token, app_email_outbox, daily_rooms,
                 app_feed_event>>

\* room.name || room.id
RoomName(room) ==
  IF ~Falsy(Field(room, "name")) THEN room.name ELSE Field(room, "id")

\* the loop goes on to the next session, or the handler returns the results
NextSession(c, result) ==
  LET results == Append(call[c].results, result)
      rest    == Tail(call[c].todo)
  IN  IF rest = <<>>
        THEN [call EXCEPT ![c].pc = "done", ![c].todo = rest,
                          ![c].results = results,
                          ![c].resp = [status |-> 200, results |-> results]]
      ELSE [call EXCEPT ![c].pc = "preCreateRoom", ![c].todo = rest,
                        ![c].results = results]

\* precreate_rooms: createRoom for the session at the head of the loop; when
\* it throws the session's result is an error
PrecreateCreateRoom(c) ==
  /\ call[c].pc = "preCreateRoom"
  /\ \/ /\ call' = [call EXCEPT ![c].pc = "preUpdate",
                                ![c].roomId = RoomName(createRoom(daily_rooms))]
        /\ daily_rooms' = daily_rooms + 1
     \/ /\ call' = NextSession(c, [id |-> Head(call[c].todo), created |-> Null,
                                   error |-> "createRoom"])
        /\ UNCHANGED daily_rooms
  /\ UNCHANGED <<webhook_event_lock, app_transaction, app_attendance, req, pure,
                 app_session, app_stream_token, app_email_outbox,
                 app_feed_event>>

\* update({live_provider, live_room_id}).eq("id", id).is("live_room_id", null):
\* a key whose value is undefined is not sent
SessionUpdateIfNoRoom(table, id, live_provider, live_room_id) ==
  IF table[id].live_room_id # Null THEN table
  ELSE [table EXCEPT ![id].live_provider = live_provider,
                     ![id].live_room_id = IF live_room_id = Null THEN @
                                          ELSE live_room_id]

\* precreate_rooms: the conditional update and the session's result
PrecreateUpdate(c) ==
  /\ call[c].pc = "preUpdate"
  /\ LET id == Head(call[c].todo)
     IN  \/ /\ app_session' = SessionUpdateIfNoRoom(app_session, id, provider,
                                                    call[c].roomId)
            /\ call' = [NextSession(c, [id |-> id, created |-> call[c].roomId,
                                        error |-> Null])
                          EXCEPT ![c].wrote = @ \cup {"app_session"}]
         \/ /\ call' = NextSession(c, [id |-> id, created |-> Null,
                                       error |-> "update"])
            /\ UNCHANGED app_session
  /\ UNCHANGED <<webhook_event_lock, app_transaction, app_attendance, req, pure,
                 app_stream_token, app_email_outbox, daily_rooms,
                 app_feed_event>>

RoomNext ==
  \/ \E c \in Calls : CreateLoad(c)
  \/ \E c \in Calls : CreateRoom(c)
  \/ \E c \in Calls : CreatePersist(c)
  \/ \E c \in Calls : PrecreateSelect(c)
  \/ \E c \in Calls : PrecreateCreateRoom(c)
  \/ \E c \in Calls : PrecreateUpdate(c)

\* no session has a room yet; s1 starts within the window, s2 may
RoomInit ==
  /\ webhook_event_lock = {}
  /\ app_transaction = {}
  /\ app_attendance = {}
  /\ req = [r \in Reqs |-> IdleReq]
  /\ pure = NoPure
  /\ \E start2 \in {12, 60} :
       app_session = [id \in {"s1", "s2"} |->
                        IF id = "s1" THEN SessionRow(id, 10, Null, Null)
                        ELSE SessionRow(id, start2, Null, Null)]
  /\ app_stream_token = {}
  /\ app_email_outbox = {}
  /\ daily_rooms = 0
  /\ app_feed_event = {}
  /\ call = [c \in Calls |-> IdleCall]

RoomSpec == RoomInit /\ [][RoomNext]_vars

(***************************************************************************)
(* email_send_receipt                                                      *)
(***************************************************************************)
\* mutant: the claim also takes rows that were sent
Pending_AnyRowMut(table) == {j \in table : j.kind = "receipt"}

\* the rows the claim's filters match: kind = 'receipt' and sent_at is null
Pending(table) == {j \in table : j.kind = "receipt" /\ j.sent_at = Null}

\* order("enqueued_at", ascending).limit(1)
FirstEnqueued(rows) ==
  {j \in rows : \A k \in rows : j.enqueued_at <= k.enqueued_at}

\* row.attempt_count + 1 in JavaScript: null converts to 0
JsAdd(x, y) == (IF x = NullNum THEN 0 ELSE x) + y

\* update(...).eq("id", id): the table with the row of that id replaced
OutboxUpdate(table, id, row) ==
  {IF j.id = id THEN row ELSE j : j \in table}

\* the row of that id
RowById(table, id) == CHOOSE j \in table : j.id = id

\* the claim: update({attempt_count: null}) of the first pending row,
\* returning it; 500 when it fails, 200 picked 0 when no row is pending
EmailClaim(c) ==
  /\ call[c].pc = "idle"
  /\ \A d \in Calls : d < c => call[d].pc # "idle"
  /\ LET arrived == [call EXCEPT ![c].fn = "email_send_receipt",
                                 ![c].alone = \A d \in Calls : ~CallInFlight(d)]
         first   == FirstEnqueued(Pending(app_email_outbox))
     IN  \/ /\ call' = [arrived EXCEPT ![c].pc = "done",
                                       ![c].resp = [status |-> 500]]
            /\ UNCHANGED app_email_outbox
         \/ /\ first = {}
            /\ call' = [arrived EXCEPT ![c].pc = "done",
                                       ![c].resp = [status |-> 200, picked |-> 0]]
            /\ UNCHANGED app_email_outbox
         \/ \E j \in first :
              LET row == [j EXCEPT !.attempt_count = NullNum]
              IN  /\ app_email_outbox' =
                       OutboxUpdate(app_email_outbox, j.id, row)
                  /\ call' = [arrived EXCEPT ![c].pc = "bump", ![c].row = row,
                                             ![c].wrote = @ \cup {"claim"}]
  /\ UNCHANGED <<webhook_event_lock, app_transaction, app_attendance, req, pure,
                 app_session, app_stream_token, daily_rooms, app_feed_event>>

\* the bump: update({attempt_count: row.attempt_count + 1}).eq("id", row.id),
\* returning the row as it is now; 500 when it fails
EmailBump(c) ==
  /\ call[c].pc = "bump"
  /\ \/ \E j \in app_email_outbox :
          /\ j.id = call[c].row.id
          /\ LET job == [j EXCEPT !.attempt_count =
                                     JsAdd(call[c].row.attempt_count, 1)]
             IN  /\ app_email_outbox' =
                      OutboxUpdate(app_email_outbox, j.id, job)
                 /\ call' = [call EXCEPT ![c].pc = "send", ![c].job = job,
                                         ![c].wrote = @ \cup {"bump"}]
     \/ /\ call' = Respond(c, [status |-> 500])
        /\ UNCHANGED app_email_outbox
  /\ UNCHANGED <<webhook_event_lock, app_transaction, app_attendance, req, pure,
                 app_session, app_stream_token, daily_rooms, app_feed_event>>

\* the values of RESEND_API_KEY: unset, or a key
ResendKeys == {"", "re_key"}

\* the send: log-only without RESEND_API_KEY, else the POST to the provider,
\* which answers ok, answers not ok, or throws (500)
EmailSend(c) ==
  /\ call[c].pc = "send"
  /\ \E RESEND_API_KEY \in ResendKeys :
       IF Falsy(RESEND_API_KEY)
         THEN call' = [call EXCEPT ![c].pc = "markSent", ![c].sendRes = "log-only"]
       ELSE \/ call' = [call EXCEPT ![c].pc = "markSent", ![c].sendRes = "ok"]
            \/ call' = [call EXCEPT ![c].pc = "markError", ![c].sendRes = "failed"]
            \/ call' = Respond(c, [status |-> 500])
  /\ UNCHANGED <<webhook_event_lock, app_transaction, app_attendance, req, pure,
                 app_session, app_stream_token, app_email_outbox, daily_rooms,
                 app_feed_event>>

\* markSent(job.id) and the 200 answer; 500 when the update fails
EmailMarkSent(c) ==
  /\ call[c].pc = "markSent"
  /\ \/ /\ app_email_outbox' =
             OutboxUpdate(app_email_outbox, call[c].job.id,
                          [RowById(app_email_outbox, call[c].job.id)
                             EXCEPT !.sent_at = Now(c), !.last_error = Null])
        /\ call' = [Respond(c, [status |-> 200, picked |-> 1, sent |-> TRUE])
                      EXCEPT ![c].wrote = @ \cup {"sent_at"}]
     \/ /\ call' = Respond(c, [status |-> 500])
        /\ UNCHANGED app_email_outbox
  /\ UNCHANGED <<webhook_event_lock, app_transaction, app_attendance, req, pure,
                 app_session, app_stream_token, daily_rooms, app_feed_event>>

\* markError(job.id, msg) and the 502 answer; 500 when the update fails
EmailMarkError(c) ==
  /\ call[c].pc = "markError"
  /\ \/ /\ app_email_outbox' =
             OutboxUpdate(app_email_outbox, call[c].job.id,
                          [RowById(app_email_outbox, call[c].job.id)
                             EXCEPT !.last_error = "send failed"])
        /\ call' = [Respond(c, [status |-> 502, picked |-> 1, sent |-> FALSE])
                      EXCEPT ![c].wrote = @ \cup {"last_error"}]
     \/ /\ call' = Respond(c, [status |-> 500])
        /\ UNCHANGED app_email_outbox
  /\ UNCHANGED <<webhook_event_lock, app_transaction, app_attendance, req, pure,
                 app_session, app_stream_token, daily_rooms, app_feed_event>>

EmailNext ==
  \/ \E c \in Calls : EmailClaim(c)
  \/ \E c \in Calls : EmailBump(c)
  \/ \E c \in Calls : EmailSend(c)
  \/ \E c \in Calls : EmailMarkSent(c)
  \/ \E c \in Calls : EmailMarkError(c)

\* the attempt_count of an outbox row when it is enqueued
InitialAttempts == 0

\* two receipts are pending, enqueued one after the other
EmailInit ==
  /\ webhook_event_lock = {}
  /\ app_transaction = {}
  /\ app_attendance = {}
  /\ req = [r \in Reqs |-> IdleReq]
  /\ pure = NoPure
  /\ app_session = [id \in {"s1"} |-> SessionRow(id, 10, Null, Null)]
  /\ app_stream_token = {}
  /\ app_email_outbox = {OutboxRow(1, 1, InitialAttempts),
                         OutboxRow(2, 2, InitialAttempts)}
  /\ daily_rooms = 0
  /\ app_feed_event = {}
  /\ call = [c \in Calls |-> IdleCall]

EmailSpec == EmailInit /\ [][EmailNext]_vars

(***************************************************************************)
(* create_checkout_session                                                 *)
(***************************************************************************)
\* Math.trunc of a JS number
Trunc(x) == IF x >= 0 THEN Floor(x) ELSE -Floor(-x)

\* toInt(v): Number(null) is 0, a number is truncated
toInt(v) == IF v = NullNum THEN 0 ELSE Trunc(v)

\* upper(s): (s || "CHF").toUpperCase()
upper(s) ==
  IF Falsy(s) THEN "CHF"
  ELSE IF s = "chf" THEN "CHF"
  ELSE IF s = "eur" THEN "EUR"
  ELSE s

\* the decimal digits of a natural number, most significant first
RECURSIVE IntDigits(_)
IntDigits(n) ==
  IF n < 10 THEN <<DigitChars[n + 1]>>
  ELSE Append(IntDigits(n \div 10), DigitChars[(n % 10) + 1])

\* String(n) for a JS number that is an integer
String(x) ==
  IF x < 0 THEN <<"-">> \o IntDigits((-x) \div Scale)
  ELSE IntDigits(x \div Scale)

\* the largest price whose digits fit the bound on price_cents strings
MaxPrice == Pow10(MaxLen) - 1

\* price_cents as stored on a product: an integer column, possibly null
StoredPrices == {NullNum, Cents(-5), Cents(0), Cents(1), Cents(250), Cents(MaxPrice)}

\* the rows the product select can return for a target
ProductRows(target_id) ==
  {ProductRow(target_id, price, currency, status) :
     price \in StoredPrices, currency \in {Null, "chf"},
     status \in {"published", "draft"}}

\* the kind and target_id of a request body
BodyKinds == {"session", "challenge", "bundle", Null}

BodyTargets == {"s1", Null}

\* mutant: the metadata carries the buyer's total, price plus fixed fee
CheckoutLoad_ChargedTotalMut(c) ==
  /\ call[c].pc = "idle"
  /\ \A d \in Calls : d < c => call[d].pc # "idle"
  /\ \E buyerId \in {"u1", Null}, kind \in BodyKinds, target_id \in BodyTargets,
        found \in BOOLEAN, p \in ProductRows("s1") :
       LET arrived == [call EXCEPT ![c].fn = "create_checkout_session",
                                   ![c].caller = buyerId,
                                   ![c].alone = \A d \in Calls : ~CallInFlight(d)]
           amountGrossCents == toInt(p.price_cents)
       IN  call' =
             IF buyerId = Null
               THEN [arrived EXCEPT ![c].pc = "done", ![c].resp = [status |-> 401]]
             ELSE IF Falsy(kind) \/ Falsy(target_id)
               THEN [arrived EXCEPT ![c].pc = "done", ![c].resp = [status |-> 400]]
             ELSE IF kind # "session" /\ kind # "challenge"
               THEN [arrived EXCEPT ![c].pc = "done", ![c].resp = [status |-> 400]]
             ELSE IF ~found
               THEN [arrived EXCEPT ![c].pc = "done", ![c].resp = [status |-> 404]]
             ELSE IF p.status # "published"
               THEN [arrived EXCEPT ![c].pc = "done", ![c].product = p,
                                    ![c].resp = [status |-> 400]]
             ELSE IF amountGrossCents <= 0
               THEN [arrived EXCEPT ![c].pc = "done", ![c].product = p,
                                    ![c].resp = [status |-> 400]]
             ELSE [arrived EXCEPT
                     ![c].pc = "stripe", ![c].product = p,
                     ![c].md = [kind |-> kind, target_id |-> target_id,
                                buyer_id |-> buyerId, creator_id |-> p.creator,
                                price_cents |->
                                  String(amountGrossCents + Cents(FixedFeeCents)),
                                currency |-> upper(p.currency)]]
  /\ UNCHANGED <<webhook_event_lock, app_transaction, app_attendance, req, pure,
                 app_session, app_stream_token, app_email_outbox, daily_rooms,
                 app_feed_event>>

\* create_checkout_session: getUser, the body, the product select, the
\* status and price checks and the metadata
CheckoutLoad(c) ==
  /\ call[c].pc = "idle"
  /\ \A d \in Calls : d < c => call[d].pc # "idle"
  /\ \E buyerId \in {"u1", Null}, kind \in BodyKinds, target_id \in BodyTargets,
        found \in BOOLEAN, p \in ProductRows("s1") :
       LET arrived == [call EXCEPT ![c].fn = "create_checkout_session",
                                   ![c].caller = buyerId,
                                   ![c].alone = \A d \in Calls : ~CallInFlight(d)]
           amountGrossCents == toInt(p.price_cents)
       IN  call' =
             IF buyerId = Null
               THEN [arrived EXCEPT ![c].pc = "done", ![c].resp = [status |-> 401]]
             ELSE IF Falsy(kind) \/ Falsy(target_id)
               THEN [arrived EXCEPT ![c].pc = "done", ![c].resp = [status |-> 400]]
             ELSE IF kind # "session" /\ kind # "challenge"
               THEN [arrived EXCEPT ![c].pc = "done", ![c].resp = [status |-> 400]]
             ELSE IF ~found
               THEN [arrived EXCEPT ![c].pc = "done", ![c].resp = [status |-> 404]]
             ELSE IF p.status # "published"
               THEN [arrived EXCEPT ![c].pc = "done", ![c].product = p,
                                    ![c].resp = [status |-> 400]]
             ELSE IF amountGrossCents <= 0
               THEN [arrived EXCEPT ![c].pc = "done", ![c].product = p,
                                    ![c].resp = [status |-> 400]]
             ELSE [arrived EXCEPT
                     ![c].pc = "stripe", ![c].product = p,
                     ![c].md = [kind |-> kind, target_id |-> target_id,
                                buyer_id |-> buyerId, creator_id |-> p.creator,
                                price_cents |-> String(amountGrossCents),
                                currency |-> upper(p.currency)]]
  /\ UNCHANGED <<webhook_event_lock, app_transaction, app_attendance, req, pure,
                 app_session, app_stream_token, app_email_outbox, daily_rooms,
                 app_feed_event>>

\* create_checkout_session: the POST /checkout/sessions with the metadata;
\* 200 with the checkout url, 500 when it fails
CheckoutCreate(c) ==
  /\ call[c].pc = "stripe"
  /\ \/ call' = Respond(c, [status |-> 200, checkout_url |-> "url"])
     \/ call' = Respond(c, [status |-> 500])
  /\ UNCHANGED <<webhook_event_lock, app_transaction, app_attendance, req, pure,
                 app_session, app_stream_token, app_email_outbox, daily_rooms,
                 app_feed_event>>

CheckoutNext ==
  \/ \E c \in Calls : CheckoutLoad(c)
  \/ \E c \in Calls : CheckoutCreate(c)

CheckoutSpec == Init /\ [][CheckoutNext]_vars

(***************************************************************************)
(* end_session                                                             *)
(***************************************************************************)
\* the callers and session ids of end_session requests
EndCallers == {"c1", "u1", Null}

EndSessionIds == {"s1", "s9", Null}

\* end_session: the authorization header and getUser, the body, the select
\* of the session, the host check and the answer for an ended session
EndLoad(c) ==
  /\ call[c].pc = "idle"
  /\ \A d \in Calls : d < c => call[d].pc # "idle"
  /\ \E caller \in EndCallers, session_id \in EndSessionIds, selected \in BOOLEAN :
       LET arrived == [call EXCEPT ![c].fn = "end_session",
                                   ![c].caller = caller,
                                   ![c].session_id = session_id,
                                   ![c].alone = \A d \in Calls : ~CallInFlight(d)]
       IN  call' =
             IF caller = Null
               THEN [arrived EXCEPT ![c].pc = "done", ![c].resp = [status |-> 401]]
             ELSE IF Falsy(session_id)
               THEN [arrived EXCEPT ![c].pc = "done", ![c].resp = [status |-> 400]]
             ELSE IF ~selected \/ session_id \notin DOMAIN app_session
               THEN [arrived EXCEPT ![c].pc = "done", ![c].resp = [status |-> 404]]
             ELSE LET s == app_session[session_id]
                  IN  IF s.host_id # caller
                        THEN [arrived EXCEPT ![c].pc = "done", ![c].s = s,
                                             ![c].resp = [status |-> 403]]
                      ELSE IF s.status = "ended"
                        THEN [arrived EXCEPT
                                ![c].pc = "done", ![c].s = s,
                                ![c].resp = [status |-> 200,
                                             message |-> "Session already ended"]]
                      ELSE [arrived EXCEPT ![c].pc = "endUpdate", ![c].s = s]
  /\ UNCHANGED <<webhook_event_lock, app_transaction, app_attendance, req, pure,
                 app_session, app_stream_token, app_email_outbox, daily_rooms,
                 app_feed_event>>

\* end_session: update of status and ended_at by id; 500 when it fails
EndUpdate(c) ==
  /\ call[c].pc = "endUpdate"
  /\ LET sid == call[c].session_id
     IN  \/ /\ app_session' = [app_session EXCEPT ![sid].status = "ended",
                                                  ![sid].ended_at = Now(c)]
            /\ call' = [call EXCEPT ![c].pc = "overview",
                                    ![c].wrote = @ \cup {"app_session"}]
         \/ /\ call' = Respond(c, [status |-> 500])
            /\ UNCHANGED app_session
  /\ UNCHANGED <<webhook_event_lock, app_transaction, app_attendance, req, pure,
                 app_stream_token, app_email_outbox, daily_rooms, app_feed_event>>

\* end_session: the select on app_session_overview, whose result only fills
\* the metadata of the feed event
EndOverview(c) ==
  /\ call[c].pc = "overview"
  /\ call' = [call EXCEPT ![c].pc = "feedInsert"]
  /\ UNCHANGED <<webhook_event_lock, app_transaction, app_attendance, req, pure,
                 app_session, app_stream_token, app_email_outbox, daily_rooms,
                 app_feed_event>>

\* end_session: insert of the session_ended feed event, a failure of which
\* is logged only, and the 200 answer
EndFeedInsert(c) ==
  /\ call[c].pc = "feedInsert"
  /\ \/ /\ app_feed_event' = app_feed_event \cup
             {[type |-> "session_ended", actor_id |-> call[c].caller,
               session_id |-> call[c].session_id, ended_at |-> Now(c)]}
        /\ call' = [Respond(c, [status |-> 200,
                                message |-> "Session successfully ended"])
                      EXCEPT ![c].wrote = @ \cup {"app_feed_event"}]
     \/ /\ call' = Respond(c, [status |-> 200,
                               message |-> "Session successfully ended"])
        /\ UNCHANGED app_feed_event
  /\ UNCHANGED <<webhook_event_lock, app_transaction, app_attendance, req, pure,
                 app_session, app_stream_token, app_email_outbox, daily_rooms>>

EndNext ==
  \/ \E c \in Calls : EndLoad(c)
  \/ \E c \in Calls : EndUpdate(c)
  \/ \E c \in Calls : EndOverview(c)
  \/ \E c \in Calls : EndFeedInsert(c)

EndSpec == Init /\ [][EndNext]_vars

(***************************************************************************)
(* PureSpec: the pure helpers applied to inputs drawn from bounded sets    *)
(***************************************************************************)
Alphabet == {"0", "1", "5", "9", "-", ".", "a"}

\* every string over Alphabet of at most MaxLen characters
PriceStrings == UNION {[1..n -> Alphabet] : n \in 0..MaxLen}

PureFees == {0, 20, 30, 58, 100}

MetaOf(kind, price) ==
  [kind |-> kind, target_id |-> "s1", buyer_id |-> "u1", creator_id |-> "c1",
   currency |-> "CHF", price_cents |-> price]

\* m without the key k
Without(m, k) == [x \in DOMAIN m \ {k} |-> m[x]]

PureMetas ==
  {MetaOf(k, p) : k \in {"session", "challenge"}, p \in PriceStrings}
  \cup {SessionMeta, ChallengeMeta}
  \cup {Without(SessionMeta, k) : k \in DOMAIN SessionMeta}
  \cup {[SessionMeta EXCEPT ![k] = ""] :
          k \in {"kind", "target_id", "buyer_id", "currency"}}
  \cup {MetaOf("subscription", <<"1", "0">>)}

PureInputs ==
  {[fn |-> "isAllowedTransition", prev |-> p, next |-> n, done |-> FALSE,
    out |-> FALSE] : p \in Statuses \cup {Null}, n \in Statuses}
  \cup
  {[fn |-> "economics", md |-> m, fee |-> f, done |-> FALSE,
    out |-> [status |-> 0]] : m \in PureMetas, f \in PureFees}

PureInit ==
  /\ webhook_event_lock = {}
  /\ app_transaction = {}
  /\ app_attendance = {}
  /\ req = [r \in Reqs |-> IdleReq]
  /\ pure \in PureInputs
  /\ EdgeInit

ApplyTransition ==
  /\ pure.fn = "isAllowedTransition" /\ ~pure.done
  /\ pure' = [pure EXCEPT !.done = TRUE,
                          !.out = isAllowedTransition(pure.prev, pure.next)]
  /\ UNCHANGED <<webhook_event_lock, app_transaction, app_attendance, req, edgeVars>>

\* the handler from parseMeta to the prepared row, for a fee already fetched:
\* 422 when parseMeta or computeEconomics throws
Economics(m, fee) ==
  LET parsed == parseMeta(m)
      math   == computeEconomics(parsed.md, fee)
  IN  IF ~parsed.ok THEN [status |-> 422, error |-> parsed.error]
      ELSE IF ~math.ok THEN [status |-> 422, error |-> math.error]
      ELSE [status |-> 200, math |-> math,
            row |-> BaseRow(parsed.md, "pi_1", math)]

ApplyEconomics ==
  /\ pure.fn = "economics" /\ ~pure.done
  /\ pure' = [pure EXCEPT !.done = TRUE, !.out = Economics(pure.md, pure.fee)]
  /\ UNCHANGED <<webhook_event_lock, app_transaction, app_attendance, req, edgeVars>>

PureNext == ApplyTransition \/ ApplyEconomics

PureSpec == PureInit /\ [][PureNext]_vars

(***************************************************************************)
(* Properties                                                              *)
(***************************************************************************)
Deduped == json({"ok", "deduped"}, 200)

Ignored == json({"ok", "ignored"}, 200)

\* the requests that carry a verified event with this id
DeliveriesOf(eid) == {r \in Reqs : req[r].eid = eid}

\* the paid checkout events whose metadata and payment reference are valid
PaidEventIds ==
  {e.id : e \in {e \in Events :
                   /\ e.type = CheckoutCompleted
                   /\ e.mode = "payment" /\ e.payment_status = "paid"
                   /\ parseMeta(e.metadata).ok
                   /\ ~Falsy(e.payment_intent)}}

TxRowsFor(piId) ==
  {t \in app_transaction : t.provider = "stripe" /\ t.provider_payment_id = piId}

AttendanceFor(session, user) ==
  {a \in app_attendance : a.session_id = session /\ a.user_id = user}

NoWrites(r) == req[r].txWrites = 0 /\ req[r].entWrites = 0

C2_ExactlyOneAdmitted ==
  \A e \in EventIds :
    LET D == DeliveriesOf(e)
        A == {r \in D : req[r].admitted}
    IN  /\ Cardinality(A) <= 1
        /\ e \in webhook_event_lock <=> A # {}
        /\ \A r \in A : req[r].resp # Deduped
        /\ \A r \in D \ A :
             req[r].pc # "lock"
             => /\ req[r].pc = "done"
                /\ req[r].resp = Deduped \/ req[r].resp.status = 500
                /\ NoWrites(r)
        /\ (\E r \in D : req[r].resp = Deduped) => Cardinality(A) = 1

\* the delivery that arrived second won the insert, the first was deduped
C2_Witness ==
  /\ req[1].eid = "evt_1" /\ req[2].eid = "evt_1"
  /\ req[2].admitted /\ InFlight(2)
  /\ req[1].resp = Deduped /\ NoWrites(1)

\* C3: No step overwrites a terminal Transaction status: a row whose status
\* is refunded, failed or canceled keeps that status.
C3_TerminalStatusKept ==
  [][\A t \in app_transaction : \A u \in app_transaction' :
       (t.status \in TerminalStatuses /\ u.id = t.id) => u.status = t.status]_vars

\* the edges of the documented state machine
SpecEdge(prev, next) ==
  \/ prev = next
  \/ prev = "pending" /\ next \in {"succeeded", "failed", "canceled"}
  \/ prev = "succeeded" /\ next = "refunded"

\* C4 as stated: isAllowedTransition is true exactly on the documented edges
C4_ExactlySpecEdges ==
  (pure.fn = "isAllowedTransition" /\ pure.done /\ pure.prev \in Statuses)
  => (pure.out <=> SpecEdge(pure.prev, pure.next))

\* C4: isAllowedTransition(prev, next) over the five statuses is true exactly
\* for prev = next, pending to succeeded, failed, canceled or refunded, and
\* succeeded to refunded.
C4_EdgesWithPendingRefunded ==
  (pure.fn = "isAllowedTransition" /\ pure.done /\ pure.prev \in Statuses)
  => (pure.out <=> (\/ SpecEdge(pure.prev, pure.next)
                    \/ pure.prev = "pending" /\ pure.next = "refunded"))

C4_Witness ==
  /\ pure.fn = "isAllowedTransition" /\ pure.done
  /\ pure.prev = "pending" /\ pure.next = "refunded" /\ pure.out = TRUE

\* C5: From succeeded, the transition to pending and the one to failed are
\* refused and the one to refunded is allowed.
C5_SucceededOnlyToRefunded ==
  (pure.fn = "isAllowedTransition" /\ pure.done /\ pure.prev = "succeeded")
  => /\ pure.next \in {"pending", "failed"} => pure.out = FALSE
     /\ pure.next = "refunded" => pure.out = TRUE

C5_Witness ==
  /\ pure.fn = "isAllowedTransition" /\ pure.done
  /\ pure.prev = "succeeded" /\ pure.next = "failed" /\ pure.out = FALSE

\* C6: A request whose read of the existing Transaction found status failed,
\* canceled or refunded has returned 200 with ok and ignored, and has written
\* neither the Transaction row nor any attendance row.
C6_DisallowedTransitionIgnored ==
  \A r \in Reqs :
    (req[r].existing.found /\ req[r].existing.status \in TerminalStatuses)
    => /\ req[r].pc = "done"
       /\ req[r].resp = Ignored
       /\ NoWrites(r)

C6_Witness ==
  \E r \in Reqs :
    /\ req[r].existing.found /\ req[r].existing.status = "refunded"
    /\ req[r].resp = Ignored /\ NoWrites(r)
    /\ \E t \in TxRowsFor(PiId(r)) : t.status = "refunded"

\* C7: A step changes at most the status of an existing Transaction row, and
\* leaves a succeeded row that stays succeeded entirely unchanged.
C7_OnlyStatusChanges ==
  [][\A t \in app_transaction : \A u \in app_transaction' :
       u.id = t.id
       => /\ [u EXCEPT !.status = t.status] = t
          /\ (t.status = "succeeded" /\ u.status = "succeeded") => u = t]_vars

\* C8: A row appears in app_transaction only when none existed for its
\* business key, one at a time, inserted by a request for a paid event with
\* valid metadata; it has status succeeded and its monetary columns are
\* computeEconomics of the metadata price and the fee that request fetched.
C8_FirstInsertIsComputedSplit ==
  [][\A u \in app_transaction' :
       (\A t \in app_transaction : t.id # u.id)
       => /\ TxRowsFor(u.provider_payment_id) = {}
          /\ Cardinality(app_transaction') = Cardinality(app_transaction) + 1
          /\ \E r \in Reqs :
               LET md   == Md(r)
                   math == computeEconomics(md, req[r].fee)
               IN  /\ req[r].pc = "insertTx" /\ req'[r].pc = "grant"
                   /\ req[r].admitted /\ req[r].eid \in PaidEventIds
                   /\ req'[r].txWrites = req[r].txWrites + 1
                   /\ u.provider = "stripe" /\ u.provider_payment_id = PiId(r)
                   /\ u.status = "succeeded"
                   /\ u.buyer_id = md.buyer_id /\ u.currency = md.currency
                   /\ math.ok
                   /\ u.amount_gross_cents = math.grossCents
                   /\ u.processing_fee_fixed_cents = math.fixedFeeCents
                   /\ u.processing_fee_percent_cents = math.percentFeeCts
                   /\ u.platform_cut_cents = math.platformCut
                   /\ u.creator_cut_cents = math.creatorCut
                   /\ u.amount_after_stripe_cents = math.afterStripe]_vars

\* evt_1 (price 1000, fee 58) has been inserted: 800 to the creator, 200 to
\* the platform, 30 fixed and 28 percentage fee, 942 net
C8_Witness ==
  \E r \in Reqs :
    /\ req[r].eid = "evt_1" /\ ~req[r].existing.found
    /\ req[r].txWrites = 1 /\ req[r].fee = 58
    /\ \E t \in TxRowsFor("pi_1") :
         /\ t.status = "succeeded"
         /\ t.amount_gross_cents = Cents(1000)
         /\ t.creator_cut_cents = Cents(800)
         /\ t.platform_cut_cents = Cents(200)
         /\ t.processing_fee_percent_cents = Cents(28)
         /\ t.amount_after_stripe_cents = Cents(942)

\* C9: In every reachable state there is at most one Transaction row per
\* (provider, provider_payment_id).
C9_BusinessKeyUnique ==
  \A t \in app_transaction : \A u \in app_transaction :
    (t.provider = u.provider /\ t.provider_payment_id = u.provider_payment_id)
    => t = u

\* two distinct events of one payment both read that no row exists, then both
\* insert: one row is stored, the other insert hit the constraint
C9_Witness ==
  /\ req[1].eid = "evt_1" /\ req[2].eid = "evt_2"
  /\ ~req[1].existing.found /\ ~req[2].existing.found
  /\ req[1].pc = "grant" /\ req[2].pc = "grant"
  /\ req[1].txWrites + req[2].txWrites = 1
  /\ Cardinality(TxRowsFor("pi_1")) = 1

\* C10: Whenever the economics are computed (the price is accepted), the
\* split and the prepared row satisfy platform cut + creator cut = gross and
\* net = gross - fixed fee - percentage fee.
C10_SplitIsExact ==
  (pure.fn = "economics" /\ pure.done /\ pure.out.status = 200)
  => LET m   == pure.out.math
         row == pure.out.row
     IN  /\ m.platformCut + m.creatorCut = m.grossCents
         /\ m.afterStripe = m.grossCents - m.fixedFeeCents - m.percentFeeCts
         /\ row.platform_cut_cents + row.creator_cut_cents = row.amount_gross_cents
         /\ row.amount_after_stripe_cents
              = row.amount_gross_cents - row.processing_fee_fixed_cents
                - row.processing_fee_percent_cents

\* price 19, fee 58: the creator cut is rounded down to 15, the platform gets 4
C10_Witness ==
  /\ pure.fn = "economics" /\ pure.done /\ pure.out.status = 200
  /\ pure.md.price_cents = <<"1", "9">> /\ pure.fee = 58
  /\ pure.out.row.creator_cut_cents = Cents(15)
  /\ pure.out.row.platform_cut_cents = Cents(4)
  /\ pure.out.row.amount_after_stripe_cents = Cents(19) - Cents(58)

\* C11: Whenever the economics are computed, the fixed fee is 30, the
\* percentage fee is the fee above 30 and 0 for a fee below 30, the creator
\* cut is the floor of 0.80 times the price and the platform cut the rest;
\* price 1000 with fee 58 gives 28, 800, 200 and net 942.
C11_EconomicsFormula ==
  (pure.fn = "economics" /\ pure.done /\ pure.out.status = 200)
  => LET m == pure.out.math
         g == StringToNumber(pure.md.price_cents).v
     IN  /\ m.grossCents = g
         /\ m.fixedFeeCents = Cents(30)
         /\ m.percentFeeCts = (IF pure.fee > 30 THEN Cents(pure.fee - 30) ELSE 0)
         /\ pure.fee < 30 => m.percentFeeCts = 0
         /\ m.creatorCut % Scale = 0
         /\ 10 * m.creatorCut <= 8 * g /\ 8 * g < 10 * (m.creatorCut + Scale)
         /\ m.platformCut = g - m.creatorCut
         /\ m.afterStripe = g - Cents(30) - m.percentFeeCts
         /\ (pure.md.price_cents = <<"1", "0", "0", "0">> /\ pure.fee = 58)
              => /\ m.percentFeeCts = Cents(28)
                 /\ m.creatorCut = Cents(800)
                 /\ m.platformCut = Cents(200)
                 /\ m.afterStripe = Cents(942)

C11_Witness ==
  /\ pure.fn = "economics" /\ pure.done /\ pure.out.status = 200
  /\ pure.md.price_cents = <<"1", "0", "0", "0">> /\ pure.fee = 58
  /\ pure.out.math.percentFeeCts = Cents(28)
  /\ pure.out.math.creatorCut = Cents(800)
  /\ pure.out.math.afterStripe = Cents(942)

\* the price is not a finite non-negative integer: empty, not a number,
\* negative or fractional
NotNonNegInteger(s) ==
  LET n == StringToNumber(s)
  IN  s = <<>> \/ n.nan \/ n.v < 0 \/ n.v % Scale # 0

\* C12: Whenever metadata.price_cents is not a finite non-negative integer,
\* the handler answers 422 and prepares no row.
C12_InvalidPriceRejected ==
  ( /\ pure.fn = "economics" /\ pure.done
    /\ "price_cents" \in DOMAIN pure.md
    /\ NotNonNegInteger(pure.md.price_cents) )
  => pure.out.status = 422

\* the request proceeded past the idempotency block
PastLock(r) ==
  \/ req[r].pc \in {"fee", "fetchTx", "insertTx", "updateTx", "grant", "grantUpsert"}
  \/ (req[r].pc = "done" /\ req[r].resp.status \in {200, 422, 502} /\ req[r].resp # Deduped)
  \/ ~NoWrites(r)

\* C13: A request is answered deduped only when another request was admitted
\* for its event id; a request whose ledger insert neither succeeded nor
\* reported a duplicate has returned 500 having written nothing; and every
\* request that proceeded past the lock was admitted, its id in the ledger.
C13_OnlyDuplicateMeansProcessed ==
  \A r \in Reqs :
    /\ req[r].resp = Deduped
         => \E q \in DeliveriesOf(req[r].eid) \ {r} : req[q].admitted
    /\ (req[r].sig = "valid" /\ req[r].pc # "lock"
        /\ ~req[r].admitted /\ req[r].resp # Deduped)
         => /\ req[r].pc = "done"
            /\ req[r].resp = json({"code"}, 500)
            /\ NoWrites(r)
    /\ PastLock(r) => req[r].admitted
    /\ req[r].admitted => req[r].eid \in webhook_event_lock

\* the only delivery of evt_1 failed on the ledger insert: 500, nothing written
C13_Witness ==
  /\ req[1].eid = "evt_1" /\ req[1].pc = "done" /\ ~req[1].admitted
  /\ req[1].resp = json({"code"}, 500)
  /\ req[2].pc = "idle"
  /\ "evt_1" \notin webhook_event_lock
  /\ app_transaction = {} /\ app_attendance = {}

\* C14: A request whose signature header is missing or fails verification
\* has returned 400, was not admitted and has written no table.
C14_BadSignatureRejected ==
  \A r \in Reqs :
    req[r].sig \in {"missing", "invalid"}
    => /\ req[r].pc = "done"
       /\ req[r].resp = json({"code"}, 400)
       /\ ~req[r].admitted
       /\ NoWrites(r)

C14_Witness ==
  /\ req[1].sig = "invalid" /\ req[1].resp.status = 400
  /\ req[2].sig = "missing" /\ req[2].resp.status = 400
  /\ webhook_event_lock = {} /\ app_transaction = {} /\ app_attendance = {}

\* the paid checkout events whose metadata lacks a required key
MalformedEventIds ==
  {e.id : e \in {e \in Events :
                   /\ e.type = CheckoutCompleted
                   /\ e.mode = "payment" /\ e.payment_status = "paid"
                   /\ \E k \in {"kind", "target_id", "buyer_id",
                                "currency", "price_cents"} :
                        k \notin DOMAIN e.metadata}}

\* C15: For a paid checkout event with malformed metadata, the admitted
\* delivery returns 422 and stays in the ledger, every other delivery is
\* deduped (or 500 when its ledger insert fails), none goes on to the fee
\* lookup or writes, and no Transaction exists for its payment.
C15_MalformedMetadata ==
  \A e \in MalformedEventIds :
    /\ TxRowsFor(EventOf(e).payment_intent) = {}
    /\ \A r \in DeliveriesOf(e) :
         /\ req[r].pc \in {"lock", "done"}
         /\ NoWrites(r)
         /\ req[r].pc = "done"
              => IF req[r].admitted
                   THEN req[r].resp = json({"code"}, 422) /\ e \in webhook_event_lock
                 ELSE req[r].resp = Deduped \/ req[r].resp.status = 500

\* evt_6 lacks buyer_id: 422, then its redelivery is deduped
C15_Witness ==
  /\ req[1].eid = "evt_6" /\ req[1].resp = json({"code"}, 422)
  /\ req[2].eid = "evt_6" /\ req[2].alone /\ req[2].resp = Deduped
  /\ "evt_6" \in webhook_event_lock

\* C16 as stated: an event is in the ledger only if its metadata is valid
C16_AdmittedOnlyIfMetadataValid ==
  \A e \in webhook_event_lock : e \notin MalformedEventIds

\* C16: The steps occur in the order verify signature, admit into the
\* ledger, validate metadata: only a request with a verified signature is
\* admitted, and a request has a verdict on its metadata (422, or going on
\* to the fee lookup) only after it was admitted into the ledger.
C16_ValidatedAfterAdmission ==
  \A r \in Reqs :
    /\ req[r].admitted => req[r].sig = "valid"
    /\ (req[r].resp.status = 422 \/ (InFlight(r) /\ req[r].pc # "lock"))
         => (req[r].admitted /\ req[r].eid \in webhook_event_lock)

C16_Witness ==
  \E r \in Reqs :
    /\ req[r].eid = "evt_6" /\ req[r].admitted /\ req[r].resp.status = 422
    /\ "evt_6" \in webhook_event_lock

OtherEventIds == {e.id : e \in {e \in Events : e.type # CheckoutCompleted}}

\* C17 as stated, for the deliveries answered 200: the answer is ok, ignored
C17_OtherTypeAlwaysIgnored ==
  \A e \in OtherEventIds : \A r \in DeliveriesOf(e) :
    (req[r].pc = "done" /\ req[r].resp.status = 200) => req[r].resp = Ignored

\* C17: A correctly signed event of another type is never processed and
\* writes nothing: its admitted delivery returns 200 ok, ignored; any other
\* delivery of it returns 200 ok, deduped (or 500 when its ledger insert
\* fails).
C17_OtherTypeIgnoredOrDeduped ==
  \A e \in OtherEventIds : \A r \in DeliveriesOf(e) :
    /\ req[r].pc \in {"lock", "done"}
    /\ NoWrites(r)
    /\ req[r].pc = "done"
         => IF req[r].admitted THEN req[r].resp = Ignored
            ELSE req[r].resp = Deduped \/ req[r].resp.status = 500

C17_Witness ==
  /\ req[1].eid = "evt_4" /\ req[1].resp = Ignored
  /\ req[2].eid = "evt_4" /\ req[2].resp = Deduped
  /\ app_transaction = {} /\ app_attendance = {}

\* C18: A request answered 502 (the fee lookup failed) was admitted and has
\* written nothing; its event id is in the ledger, and every other delivery
\* of that id that is past the lock has returned deduped (or 500 when its
\* ledger insert failed) without writing.
C18_FeeFailureKeepsLock ==
  \A r \in Reqs :
    req[r].resp.status = 502
    => /\ req[r].pc = "done" /\ req[r].admitted /\ NoWrites(r)
       /\ req[r].eid \in webhook_event_lock
       /\ \A q \in DeliveriesOf(req[r].eid) \ {r} :
            req[q].pc # "lock"
            => /\ req[q].pc = "done"
               /\ (req[q].resp = Deduped \/ req[q].resp.status = 500)
               /\ NoWrites(q)

\* evt_3: the fee lookup fails, the redelivery is deduped, nothing recorded
C18_Witness ==
  /\ req[1].eid = "evt_3" /\ req[1].resp.status = 502
  /\ req[2].eid = "evt_3" /\ req[2].alone /\ req[2].resp = Deduped
  /\ TxRowsFor("pi_2") = {} /\ app_attendance = {}

\* C19: A purchase is not lost.  The provider stops redelivering once a
\* delivery is answered 200; so when every delivery of a valid paid event
\* has returned and one was answered 200, a Transaction exists for its
\* payment.
C19_AcknowledgedMeansRecorded ==
  \A e \in PaidEventIds :
    LET D == DeliveriesOf(e)
    IN  ( /\ \A r \in D : req[r].pc = "done"
          /\ \E r \in D : req[r].resp.status = 200 )
        => TxRowsFor(EventOf(e).payment_intent) # {}

\* C20: With the deliveries on their own, whenever a request upserts
\* attendance rows a Transaction row for its payment exists with status
\* succeeded.
C20_GrantOnlyAfterSucceeded ==
  [][\A r \in Reqs :
       req'[r].entWrites > req[r].entWrites
       => \E t \in TxRowsFor(PiId(r)) : t.status = "succeeded"]_vars

\* both events of payment pi_1 were in flight together and both granted
C20_Witness ==
  /\ req[1].eid = "evt_1" /\ req[2].eid = "evt_2" /\ ~req[2].alone
  /\ req[1].entWrites = 1 /\ req[2].entWrites = 1
  /\ \E t \in TxRowsFor("pi_1") : t.status = "succeeded"

\* the sessions app_challenge_session links to a challenge
LinkedSessions(challenge) ==
  {l.session_id : l \in {l \in app_challenge_session : l.challenge_id = challenge}}

\* C21: Once a request has fanned out a challenge purchase, the buyer has
\* exactly one attendance row for each of the N sessions linked to the
\* challenge, N rows in all, however many fan-outs for that buyer (of the
\* same challenge or of one of its sessions) came before or come after.
C21_BundleFanOut ==
  \A r \in Reqs :
    (req[r].eid # Null /\ Md(r).kind = "challenge" /\ req[r].entWrites > 0)
    => LET L    == LinkedSessions(Md(r).target_id)
           rows == {a \in app_attendance :
                      a.user_id = Md(r).buyer_id /\ a.session_id \in L}
       IN  /\ Cardinality(rows) = Cardinality(L)
           /\ \A sid \in L : Cardinality(AttendanceFor(sid, Md(r).buyer_id)) = 1

\* two events of the same challenge purchase both fanned out: still 2 rows
C21_Witness ==
  /\ req[1].eid = "evt_3" /\ req[1].entWrites = 1
  /\ req[2].eid = "evt_7" /\ req[2].entWrites = 1
  /\ Cardinality(LinkedSessions("ch1")) = 2
  /\ Cardinality({a \in app_attendance : a.user_id = "u1"}) = 2

\* C23: A request whose entitlement upsert or bundle-member lookup failed
\* has returned 200 with ok and a warning, and the Transaction of its
\* payment is succeeded.
C23_GrantFailureWarns ==
  \A r \in Reqs :
    req[r].grantError # Null
    => /\ req[r].pc = "done"
       /\ req[r].resp = json({"ok", "warning"}, 200)
       /\ \E t \in TxRowsFor(PiId(r)) : t.status = "succeeded"

Warning == json({"ok", "warning"}, 200)

\* C24: Every response has a status in {200, 400, 422, 500, 502}; a response
\* carries ok exactly when its status is 200; a 200 is a deduped answer to a
\* duplicate, an ignored answer to an admitted event that wrote nothing, or
\* the answer (processed, or with a warning) to an admitted event past the
\* Transaction upsert; a duplicate is answered deduped, and a request that
\* wrote a Transaction is answered 200.
C24_ResponseStatuses ==
  \A r \in Reqs :
    req[r].pc = "done"
    => LET resp == req[r].resp
       IN  /\ resp.status \in {200, 400, 422, 500, 502}
           /\ resp.status = 200 <=> "ok" \in resp.body
           /\ resp.status = 200
                => \/ resp = Deduped /\ ~req[r].admitted
                   \/ resp = Ignored /\ req[r].admitted /\ NoWrites(r)
                   \/ resp \in {Processed, Warning} /\ req[r].admitted
           /\ (req[r].sig = "valid" /\ ~req[r].admitted /\ resp.status # 500)
                => resp = Deduped
           /\ req[r].txWrites > 0 => resp.status = 200

\* a processed, a deduped and (on a disallowed transition) an ignored answer
C24_Witness ==
  /\ req[1].pc = "done" /\ req[1].resp = Processed
  /\ req[2].pc = "done" /\ req[2].resp = Ignored
  /\ req[2].existing.found /\ req[2].existing.status = "refunded"

\* C25: Every Transaction row references exactly one target: a ticket has
\* session_id set and challenge_id null, a bundle has challenge_id set and
\* session_id null, and the kind of the row is the kind of the purchase that
\* wrote it.
C25_ExactlyOneTarget ==
  /\ \A t \in app_transaction :
       \/ t.type = "ticket" /\ t.session_id # Null /\ t.challenge_id = Null
       \/ t.type = "bundle" /\ t.challenge_id # Null /\ t.session_id = Null
  /\ \A r \in Reqs :
       req[r].txWrites > 0
       => \A t \in TxRowsFor(PiId(r)) :
            IF Md(r).kind = "session"
              THEN t.type = "ticket" /\ t.session_id = Md(r).target_id
            ELSE t.type = "bundle" /\ t.challenge_id = Md(r).target_id

\* a ticket row and a bundle row have been written
C25_Witness ==
  /\ \E t \in app_transaction : t.type = "ticket" /\ t.session_id = "s1"
  /\ \E t \in app_transaction : t.type = "bundle" /\ t.challenge_id = "ch1"
  /\ \A r \in Reqs : req[r].txWrites > 0

\* C26: No step removes an event id from the ledger and no step removes a
\* Transaction row: the ledger only grows and every row id stays.
C26_AppendOnly ==
  [][/\ webhook_event_lock \subseteq webhook_event_lock'
     /\ \A t \in app_transaction : \E u \in app_transaction' : u.id = t.id]_vars

\* two events admitted, the second updated the row the first inserted
C26_Witness ==
  /\ webhook_event_lock = {"evt_1", "evt_2"}
  /\ req[1].txWrites = 1 /\ req[2].txWrites = 1
  /\ req[2].existing.found
  /\ Cardinality(app_transaction) = 1

\* C27: A request answered processed has enqueued a receipt job keyed by
\* the identifier of its Transaction.
C27_ReceiptEnqueued ==
  \A r \in Reqs :
    req[r].resp = Processed
    => \E j \in app_email_outbox :
         /\ j.kind = "receipt"
         /\ \E t \in TxRowsFor(PiId(r)) : j.tx_id = t.id

\* the user is the host or a cohost of the session, or holds an attendance
\* row for it
Entitled(user, session) ==
  /\ user # Null
  /\ session \in DOMAIN app_session
  /\ \/ app_session[session].host_id = user
     \/ \E ch \in app_session_cohost :
          ch.session_id = session /\ ch.cohost_id = user
     \/ AttendanceFor(session, user) # {}

JoinCalls == {c \in Calls : call[c].fn = "issue_join_token"}

C22_RegrantKeepsJoinedAt ==
  \A c \in JoinCalls :
    "app_attendance" \in call[c].wrote
    => \A a \in AttendanceFor(call[c].session_id, call[c].caller) :
         a.joined_at # Null

CreateCalls == {c \in Calls : call[c].fn = "create_live_room"}

\* C29: create_live_room creates and stores a room only for the session's
\* host; a call answered reused:true created no room and returns the room id
\* it found on the session; and when every call arrived after the calls
\* before it had returned, all the room ids returned for one session are the
\* same.
C29_HostOnlyAndReuse ==
  /\ \A c \in CreateCalls :
       /\ (call[c].roomId # Null \/ call[c].wrote # {} \/ call[c].resp.status = 200)
            => /\ call[c].session_id \in DOMAIN app_session
               /\ app_session[call[c].session_id].host_id = call[c].caller
       /\ (call[c].resp.status = 200 /\ call[c].resp.reused)
            => /\ call[c].roomId = Null /\ call[c].wrote = {}
               /\ call[c].resp.live_room_id = call[c].s.live_room_id
               /\ call[c].s.live_provider = provider
  /\ (\A e \in Calls : call[e].pc # "idle" => call[e].alone)
       => \A c, d \in CreateCalls :
            ( /\ call[c].session_id = call[d].session_id
              /\ call[c].resp.status = 200 /\ call[d].resp.status = 200 )
            => /\ call[c].resp.live_room_id = call[d].resp.live_room_id
               /\ c < d => call[d].resp.reused

\* the host's first call creates room_1, the second returns it as reused
C29_Witness ==
  /\ call[1].fn = "create_live_room" /\ call[1].caller = "c1"
  /\ call[1].session_id = "s1"
  /\ call[1].resp.status = 200 /\ ~call[1].resp.reused
  /\ call[2].fn = "create_live_room" /\ call[2].alone
  /\ call[2].session_id = "s1"
  /\ call[2].resp.status = 200 /\ call[2].resp.reused
  /\ call[2].resp.live_room_id = call[1].resp.live_room_id
  /\ daily_rooms = 1

PrecreateCalls == {c \in Calls : call[c].fn = "precreate_rooms"}

\* C30: When precreate_rooms returns, every session it reports without an
\* error carries a created identifier, the identifier is not null and it is
\* the live_room_id stored on that session.
C30_ReportedIsStored ==
  \A c \in PrecreateCalls :
    call[c].pc = "done" /\ call[c].resp.status = 200
    => \A i \in 1..Len(call[c].resp.results) :
         LET result == call[c].resp.results[i]
         IN  result.error = Null
             => /\ result.created # Null
                /\ app_session[result.id].live_room_id = result.created

EmailCalls == {c \in Calls : call[c].fn = "email_send_receipt"}

\* every call so far arrived after the calls before it had returned
Sequential == \A e \in Calls : call[e].pc # "idle" => call[e].alone

\* C31 as stated: sent_at is set on an outbox row only by an invocation whose
\* send succeeded or that ran in log-only mode; an invocation whose send was
\* refused by the provider returns 502, has recorded last_error and has not
\* written sent_at; and across sequential invocations a row whose sent_at is
\* set is not picked again.
C31_FailedSendAnswers502 ==
  /\ \A j \in app_email_outbox :
       j.sent_at # Null
       => \E c \in EmailCalls : /\ call[c].job.id = j.id
                                /\ call[c].sendRes \in {"ok", "log-only"}
                                /\ j.sent_at = Now(c)
  /\ \A c \in EmailCalls :
       (call[c].pc = "done" /\ call[c].sendRes = "failed")
       => /\ call[c].resp.status = 502
          /\ "last_error" \in call[c].wrote
          /\ "sent_at" \notin call[c].wrote
  /\ Sequential
       => \A c \in EmailCalls :
            call[c].row # NoRow
            => /\ call[c].row.sent_at = Null
               /\ \A d \in EmailCalls :
                    (d < c /\ call[d].job.id = call[c].row.id)
                    => "sent_at" \notin call[d].wrote

\* C31 amended: as above, but an invocation whose send was refused returns
\* 502 exactly when it recorded last_error, and 500 when recording it failed.
C31_SentOnlyAfterSuccess ==
  /\ \A j \in app_email_outbox :
       j.sent_at # Null
       => \E c \in EmailCalls : /\ call[c].job.id = j.id
                                /\ call[c].sendRes \in {"ok", "log-only"}
                                /\ j.sent_at = Now(c)
  /\ \A c \in EmailCalls :
       (call[c].pc = "done" /\ call[c].sendRes = "failed")
       => /\ call[c].resp.status \in {502, 500}
          /\ call[c].resp.status = 502 <=> "last_error" \in call[c].wrote
          /\ "sent_at" \notin call[c].wrote
  /\ \A c \in EmailCalls :
       call[c].resp.status = 502 => call[c].sendRes = "failed"
  /\ Sequential
       => \A c \in EmailCalls :
            call[c].row # NoRow
            => /\ call[c].row.sent_at = Null
               /\ \A d \in EmailCalls :
                    (d < c /\ call[d].job.id = call[c].row.id)
                    => "sent_at" \notin call[d].wrote

\* the first invocation's send is refused (502, last_error recorded); the
\* second, run after it, picks the same row again and marks it sent
C31_Witness ==
  /\ call[1].fn = "email_send_receipt" /\ call[1].resp.status = 502
  /\ call[1].job.id = 1
  /\ call[2].fn = "email_send_receipt" /\ call[2].alone
  /\ call[2].resp.status = 200 /\ call[2].job.id = 1
  /\ \E j \in app_email_outbox : j.id = 1 /\ j.sent_at = Now(2)

\* the invocations that have made a send attempt on the row: claimed it and
\* bumped its attempt_count
Attempts(id) ==
  {c \in EmailCalls : call[c].job.id = id /\ "bump" \in call[c].wrote}

\* C35: When the invocations run one after the other and none is in flight,
\* the attempt_count of every outbox row whose claims were all followed by
\* the bump equals its initial value plus the number of send attempts made
\* on it.
C35_AttemptCountCounts ==
  (Sequential /\ \A c \in Calls : ~CallInFlight(c))
  => \A j \in app_email_outbox :
       (\A c \in EmailCalls : call[c].row.id = j.id => c \in Attempts(j.id))
       => j.attempt_count = InitialAttempts + Cardinality(Attempts(j.id))

\* C36: In every interleaving of email_send_receipt invocations, no two
\* invocations in flight hold the same outbox row, and the provider has
\* accepted the email of each row at most once.
C36_ClaimedAndSentOnce ==
  /\ \A c, d \in EmailCalls :
       (c # d /\ CallInFlight(c) /\ CallInFlight(d))
       => call[c].row.id # call[d].row.id
  /\ \A j \in app_email_outbox :
       Cardinality({c \in EmailCalls : /\ call[c].job.id = j.id
                                       /\ call[c].sendRes = "ok"}) <= 1

\* the arrived deliveries of checkout-completed events that are not paid
\* one-time payments
UnpaidDeliveries ==
  {r \in Reqs : /\ req[r].eid # Null
                /\ EventOf(req[r].eid).type = CheckoutCompleted
                /\ \/ EventOf(req[r].eid).mode # "payment"
                   \/ EventOf(req[r].eid).payment_status # "paid"}

\* C32: A delivery of a checkout-completed event whose mode is not payment
\* or whose payment_status is not paid, once through the ledger, is answered
\* 200 ok, ignored; no delivery of it writes a Transaction or an Entitlement
\* Record and none exists for its payment; its event id stays in the ledger,
\* and every other delivery of it that is past the ledger is answered
\* deduped (or 500 when its ledger insert failed).
C32_UnpaidIgnored ==
  \A r \in UnpaidDeliveries :
    /\ NoWrites(r)
    /\ TxRowsFor(PiId(r)) = {}
    /\ req[r].pc \in {"idle", "lock", "done"}
    /\ req[r].admitted
       => /\ req[r].pc = "done" /\ req[r].resp = Ignored
          /\ req[r].eid \in webhook_event_lock
          /\ \A q \in DeliveriesOf(req[r].eid) \ {r} :
               req[q].pc = "done"
               => /\ ~req[q].admitted
                  /\ (req[q].resp = Deduped \/ req[q].resp.status \in {400, 500})

\* an unpaid checkout is ignored, its redelivery is deduped, nothing written
C32_Witness ==
  /\ req[1].eid = "evt_8" /\ req[1].resp = Ignored
  /\ req[2].eid = "evt_8" /\ req[2].resp = Deduped
  /\ "evt_8" \in webhook_event_lock
  /\ app_transaction = {} /\ app_attendance = {}

\* the calls of create_checkout_session that created a checkout
Stamped ==
  {c \in Calls : /\ call[c].fn = "create_checkout_session"
                 /\ call[c].resp.status = 200}

\* C33: Every metadata bag stamped on a checkout passes parseMeta and, for
\* every total fee, computeEconomics: kind is session or challenge,
\* target_id, buyer_id and currency are non-empty, and price_cents is the
\* decimal string of a positive integer that is the product's stored price
\* and not that price plus the buyer's fixed fee.
C33_StampedMetaPasses ==
  \A c \in Stamped :
    LET md == call[c].md
    IN  /\ parseMeta(md).ok
        /\ \A fee \in Fees : computeEconomics(md, fee).ok
        /\ md.kind \in {"session", "challenge"}
        /\ ~Falsy(md.target_id) /\ ~Falsy(md.buyer_id) /\ ~Falsy(md.currency)
        /\ md.price_cents # <<>> /\ AllDigits(md.price_cents)
        /\ md.price_cents[1] # "0"
        /\ StringToNumber(md.price_cents).v = call[c].product.price_cents
        /\ StringToNumber(md.price_cents).v > 0
        /\ StringToNumber(md.price_cents).v
             # call[c].product.price_cents + Cents(FixedFeeCents)
        /\ \A fee \in Fees :
             computeEconomics(md, fee).grossCents = call[c].product.price_cents

\* a checkout was created for the largest price and for a product without
\* a currency
C33_Witness ==
  \E c, d \in Stamped :
    /\ call[c].product.price_cents = Cents(MaxPrice)
    /\ call[c].md.kind = "challenge"
    /\ call[d].product.currency = Null /\ call[d].md.currency = "CHF"
    /\ call[d].md.price_cents = <<"1">>

\* C34: A join request whose rate-limit check reported a limit exceeded,
\* another non-success result, or could not be reached has ended with 429,
\* 500 or 503 respectively, holds no token and has written no session,
\* attendance or token row; a request that holds a token or has written
\* passed the check.
C34_LimiterFailsClosed ==
  \A c \in JoinCalls :
    /\ call[c].limiter = "exceeded"
       => call[c].pc = "done" /\ call[c].resp.status = 429
    /\ call[c].limiter = "failed"
       => call[c].pc = "done" /\ call[c].resp.status = 500
    /\ call[c].limiter = "unreachable"
       => call[c].pc = "done" /\ call[c].resp.status = 503
    /\ call[c].limiter \in {"exceeded", "failed", "unreachable"}
       => /\ call[c].token = Null /\ call[c].wrote = {}
          /\ \A t \in app_stream_token :
               (t.session_id = call[c].session_id /\ t.user_id = call[c].caller)
               => \E d \in JoinCalls \ {c} : "app_stream_token" \in call[d].wrote
    /\ (call[c].token # Null \/ call[c].wrote # {} \/ call[c].resp.status = 200)
       => call[c].limiter = "ok"
    /\ call[c].resp.status \in {429, 503} => call[c].limiter # "ok"

\* the buyer's first request is let through and gets a token, the second is
\* rate limited and writes nothing
C34_Witness ==
  /\ call[1].caller = "u1" /\ call[1].resp.status = 200
  /\ call[1].limiter = "ok" /\ call[1].token # Null
  /\ call[2].caller = "u1" /\ call[2].session_id = "s1"
  /\ call[2].limiter = "exceeded" /\ call[2].resp.status = 429
  /\ call[2].wrote = {}

\* C37: When two create_live_room calls by the host for the same session
\* have both returned a room, in whatever order their steps ran, each
\* returned room id is the live_room_id stored on the session and at most
\* one room was created for the session.
C37_ConcurrentCreateOneRoom ==
  \A c, d \in CreateCalls :
    ( /\ c # d
      /\ \A e \in Calls : call[e].pc # "idle" => e \in CreateCalls
      /\ call[c].session_id = call[d].session_id
      /\ call[c].pc = "done" /\ call[c].resp.status = 200
      /\ call[d].pc = "done" /\ call[d].resp.status = 200 )
    => /\ call[c].resp.live_room_id = app_session[call[c].session_id].live_room_id
       /\ call[d].resp.live_room_id = app_session[call[d].session_id].live_room_id
       /\ Cardinality({e \in CreateCalls :
                         /\ call[e].session_id = call[c].session_id
                         /\ call[e].roomId # Null}) <= 1

EndCalls == {c \in Calls : call[c].fn = "end_session"}

\* C38: In every sequence and interleaving of end_session calls by the host
\* of a session, at most one session_ended feed event exists for the
\* session and at most one call has written ended_at; a call that found the
\* session already ended has returned 200 and written nothing.
C38_EndedOnce ==
  /\ \A sid \in DOMAIN app_session :
       /\ Cardinality({f \in app_feed_event :
                         f.type = "session_ended" /\ f.session_id = sid}) <= 1
       /\ Cardinality({c \in EndCalls : /\ call[c].session_id = sid
                                        /\ "app_session" \in call[c].wrote}) <= 1
  /\ \A c \in EndCalls :
       (call[c].s.status = "ended" /\ call[c].s.host_id = call[c].caller)
       => /\ call[c].pc = "done" /\ call[c].resp.status = 200
          /\ call[c].wrote = {}

====
